---- MODULE Spec2Model ----
(***************************************************************************)
(* Model of the structural scanner of the Nerd4J VS Code extension:       *)
(*   src/src/parser.ts       comment scanner, bracket matcher, class       *)
(*                           forest builder, method locator                *)
(*   src/unnamed/part_001    commons: TextInterval, Comment, JavaClass     *)
(* A text is a sequence of one-character strings; indexes are 0-based as   *)
(* in the source (At(code, i) reads code[i]).                              *)
(***************************************************************************)
EXTENDS Integers, Sequences, FiniteSets, TLC

VARIABLES code,      \* the document text (javaFileContent)
          comments,  \* findComments(code)
          forest,    \* findClasses(code, comments): arena of JavaClass nodes
          pc,        \* "idle" or "returned"; the await a processor stands at
          call,      \* the operation last called and its arguments
          ret,       \* what that operation returned (or that it threw)
          globalLastIndex,  \* GLOBAL_IMPORT_REGEXP.lastIndex (a module level /g pattern)
          scan,      \* the loop state of a running moveToClosingBracket
          processor, \* the JavaClassProcessor: its class node, its locals, the cursor
          command,   \* the running command: its position and what it awaits
          settings   \* the Nerd4J settings of the workspace configuration

vars == <<code, comments, forest, pc, call, ret, globalLastIndex, scan,
          processor, command, settings>>

(***************************************************************************)
(* Bounds of the model.                                                    *)
(***************************************************************************)
MaxBracketTokens == 6
MaxForestTokens == 5
MaxInsertTokens == 6
MaxMethodTokens == 5
MaxIndex == 5

(***************************************************************************)
(* Texts.                                                                  *)
(***************************************************************************)
\* JavaScript's `undefined`: what code[i] yields outside the text.
Undefined == "undefined"

\* code[i] of the source (0-based).
At(str, i) == IF i >= 0 /\ i < Len(str) THEN str[i + 1] ELSE Undefined

\* The characters /\s/ matches, among those the texts are made of.
WhiteSpaceChars == {" ", "\n", "\t"}

\* /\s/.test(c): test() converts its argument to a string, so `undefined`
\* is tested as the word "undefined", which holds no white space.
whiteSpace(c) == c \in WhiteSpaceChars

\* code.slice(from, to) for 0 <= from.
slice(str, from, to) ==
    IF to <= from THEN <<>> ELSE SubSeq(str, from + 1, IF to > Len(str) THEN Len(str) ELSE to)

RECURSIVE Concat(_)
Concat(toks) == IF toks = <<>> THEN <<>> ELSE Head(toks) \o Concat(Tail(toks))

RECURSIVE SeqsUpTo(_, _)
\* Every sequence of at most n elements of S.
SeqsUpTo(S, n) ==
    IF n = 0 THEN {<<>>}
    ELSE LET shorter == SeqsUpTo(S, n - 1)
         IN  shorter \cup {Append(s, x) : s \in {t \in shorter : Len(t) = n - 1}, x \in S}

\* Every text made of at most n of the given tokens.
TextsOf(tokens, n) == {Concat(t) : t \in SeqsUpTo(tokens, n)}

(***************************************************************************)
(* commons: TextInterval, CommentType, Comment.                            *)
(***************************************************************************)
\* The outcome of a constructor that threw: no interval exists.
Thrown == [startIndex |-> -1, endIndex |-> -1]

\* A version of the constructor that lost its last check.
TextIntervalOfNoOrderCheck(startIndex, endIndex) ==
    IF startIndex < 0 THEN Thrown
    ELSE IF endIndex < 0 THEN Thrown
    ELSE [startIndex |-> startIndex, endIndex |-> endIndex]

\* TextInterval.of / the private constructor.
TextIntervalOf(startIndex, endIndex) ==
    IF startIndex < 0 THEN Thrown
    ELSE IF endIndex < 0 THEN Thrown
    ELSE IF endIndex < startIndex THEN Thrown
    ELSE [startIndex |-> startIndex, endIndex |-> endIndex]

\* TextInterval.size
size(interval) == interval.endIndex - interval.startIndex + 1

\* A containment test that looks at the start of the interval only.
liesWithinStartOnly(this, interval) == this.startIndex >= interval.startIndex

\* TextInterval.liesWithin
liesWithin(this, interval) ==
    this.startIndex >= interval.startIndex /\ this.endIndex <= interval.endIndex

\* TextInterval.includes
includes(this, index) == this.startIndex <= index /\ this.endIndex >= index

\* enum CommentType
singleLine == "singleLine"
multiLine == "multiLine"
javaDoc == "javaDoc"
NoCommentType == "null"

\* Comment.of
CommentOf(type, startIndex, endIndex) ==
    [type |-> type, interval |-> TextIntervalOf(startIndex, endIndex)]

(***************************************************************************)
(* parser: comment scanner.                                                *)
(***************************************************************************)
getCommentType(str, index) ==
    LET c == At(str, index)
    IN  IF c = "/" THEN singleLine
        ELSE IF c = "*"
             THEN (IF At(str, index + 1) = "*" THEN javaDoc ELSE multiLine)
             ELSE NoCommentType

\* The for loop of moveToEndOfLine from i on: the first line end, or index
\* when the text ends before one.
moveToEndOfLineFrom(str, index, i) ==
    IF i >= Len(str) THEN index
    ELSE LET end == CHOOSE j \in i..Len(str) :
                       /\ j = Len(str) \/ At(str, j) = "\n"
                       /\ \A h \in i..(j - 1) : At(str, h) # "\n"
         IN  IF end = Len(str) THEN index ELSE end

moveToEndOfLine(str, index) == moveToEndOfLineFrom(str, index, index)

\* The for loop of moveToEndOfComment from i on: the end of the first "*/",
\* or index when the text ends before one.
moveToEndOfCommentFrom(str, index, i) ==
    IF i >= Len(str) THEN index
    ELSE LET star == CHOOSE j \in i..Len(str) :
                        /\ j = Len(str) \/ (At(str, j) = "*" /\ At(str, j + 1) = "/")
                        /\ \A h \in i..(j - 1) : ~(At(str, h) = "*" /\ At(str, h + 1) = "/")
         IN  IF star = Len(str) THEN index ELSE star + 1

\* A scanner that lets a comment without its end run to the end of the text.
moveToEndOfCommentOrText(str, index) ==
    LET end == moveToEndOfCommentFrom(str, index, index)
    IN  IF end = index THEN Len(str) - 1 ELSE end

moveToEndOfComment(str, index) == moveToEndOfCommentFrom(str, index, index)

RECURSIVE findCommentsFrom(_, _, _)
\* The for loop of findComments from index i on.  The iterations at an
\* index where no comment starts change nothing: they are taken at once, up
\* to the next "/" followed by "/" or "*".
findCommentsFrom(str, i, acc) ==
    IF i >= Len(str) THEN acc
    ELSE LET at == CHOOSE j \in i..Len(str) :
                      /\ \/ j = Len(str)
                         \/ At(str, j) = "/" /\ getCommentType(str, j + 1) # NoCommentType
                      /\ \A h \in i..(j - 1) :
                            ~(At(str, h) = "/" /\ getCommentType(str, h + 1) # NoCommentType)
             commentType == getCommentType(str, at + 1)
         IN  IF at = Len(str) THEN acc
             ELSE IF commentType = singleLine
             THEN findCommentsFrom(str, at + 1,
                     Append(acc, CommentOf(commentType, at, moveToEndOfLine(str, at + 1))))
             ELSE findCommentsFrom(str, at + 1,
                     Append(acc, CommentOf(commentType, at, moveToEndOfComment(str, at + 1))))

\* A scanner that puts each comment it finds in front of the list.
findCommentsNewestFirst(str) ==
    LET found == findCommentsFrom(str, 0, <<>>)
    IN  [n \in 1..Len(found) |-> found[Len(found) + 1 - n]]

findComments(str) == findCommentsFrom(str, 0, <<>>)

(***************************************************************************)
(* parser: bracket matcher.                                                *)
(***************************************************************************)
RECURSIVE skipCommentsBefore(_, _, _)
\* The first loop of moveToClosingBracket and of getScopeOf.
skipCommentsBefore(cs, index, k) ==
    IF k < Len(cs) /\ cs[k + 1].interval.endIndex < index
    THEN skipCommentsBefore(cs, index, k + 1)
    ELSE k

\* An iteration that jumps to the end of the comment under the cursor and
\* leaves the cursor on it.
closingBracketStepSameComment(str, cs, st) ==
    LET jump == st.k < Len(cs) /\ st.i >= cs[st.k + 1].interval.startIndex
        i == IF jump THEN cs[st.k + 1].interval.endIndex ELSE st.i
        c == At(str, i)
    IN  [i |-> i + 1, k |-> st.k,
         scope |-> IF c = "{" THEN st.scope + 1 ELSE IF c = "}" THEN st.scope - 1 ELSE st.scope,
         found |-> c = "}" /\ st.scope - 1 = 0, at |-> i]

\* One iteration of the for loop of moveToClosingBracket, from the loop
\* state [i, k, scope] (i < code.length) to the next one.
closingBracketStep(str, cs, st) ==
    LET jump == st.k < Len(cs) /\ st.i >= cs[st.k + 1].interval.startIndex
        i == IF jump THEN cs[st.k + 1].interval.endIndex ELSE st.i
        k == IF jump THEN st.k + 1 ELSE st.k
        c == At(str, i)
    IN  IF c = "{"
        THEN [i |-> i + 1, k |-> k, scope |-> st.scope + 1, found |-> FALSE, at |-> i]
        ELSE IF c = "}"
        THEN [i |-> i + 1, k |-> k, scope |-> st.scope - 1, found |-> st.scope - 1 = 0, at |-> i]
        ELSE [i |-> i + 1, k |-> k, scope |-> st.scope, found |-> FALSE, at |-> i]

RECURSIVE closingBracketLoop(_, _, _, _)
\* The for loop of moveToClosingBracket from the loop state st on.  The
\* iterations that meet no brace and no comment change nothing but i: they
\* are taken at once, up to the next brace, the next comment or the end of
\* the text.
closingBracketLoop(str, index, cs, st) ==
    IF st.found THEN st.at
    ELSE IF st.i >= Len(str) THEN index
    ELSE LET i == CHOOSE j \in st.i..Len(str) :
                     /\ \/ j = Len(str)
                        \/ At(str, j) \in {"{", "}"}
                        \/ st.k < Len(cs) /\ j >= cs[st.k + 1].interval.startIndex
                     /\ \A h \in st.i..(j - 1) :
                           /\ At(str, h) \notin {"{", "}"}
                           /\ ~(st.k < Len(cs) /\ h >= cs[st.k + 1].interval.startIndex)
         IN  IF i >= Len(str) THEN index
             ELSE closingBracketLoop(str, index, cs,
                                     closingBracketStep(str, cs, [st EXCEPT !.i = i]))

\* A matcher that stops at the first close brace, whatever the nesting.
moveToFirstCloseBracket(str, index, cs) ==
    LET after == {j \in (index + 1)..(Len(str) - 1) : At(str, j) = "}"}
    IN  IF after = {} THEN index ELSE CHOOSE j \in after : \A h \in after : j <= h

\* moveToClosingBracket
moveToClosingBracket(str, index, cs) ==
    closingBracketLoop(str, index, cs,
        [i |-> index + 1, k |-> skipCommentsBefore(cs, index, 0), scope |-> 1,
         found |-> FALSE, at |-> index])

(***************************************************************************)
(* Regular expressions.  A pattern is a sequence of elements, matched the  *)
(* way the JavaScript engine does: greedily, backtracking to fewer         *)
(* repetitions when the rest of the pattern does not match.                *)
(*   Lit(w)          the characters of w                                   *)
(*   Opt(w)          (w)?                                                  *)
(*   Rep(S, neg, n)  n or more characters of the class [S] ([^S] if neg)   *)
(*   Dot             .  (one character that is no line terminator)         *)
(***************************************************************************)
Lit(w) == [kind |-> "lit", word |-> w, chars |-> {}, neg |-> FALSE, min |-> 0]
Opt(w) == [kind |-> "opt", word |-> w, chars |-> {}, neg |-> FALSE, min |-> 0]
Rep(S, neg, n) == [kind |-> "rep", word |-> <<>>, chars |-> S, neg |-> neg, min |-> n]
Dot == [kind |-> "dot", word |-> <<>>, chars |-> {"\n"}, neg |-> TRUE, min |-> 1]

InClass(c, el) == c # Undefined /\ ((c \in el.chars) # el.neg)

WordAt(str, pos, w) == \A n \in 1..Len(w) : At(str, pos + n - 1) = w[n]

\* The number of consecutive characters of the class of el from pos + n on, plus n.
RunLength(str, el, pos, n) ==
    IF InClass(At(str, pos + n), el)
    THEN CHOOSE m \in (n + 1)..(Len(str) - pos) :
            /\ ~InClass(At(str, pos + m), el)
            /\ \A h \in (n + 1)..(m - 1) : InClass(At(str, pos + h), el)
    ELSE n

NoMatch == -1

RECURSIVE MatchFrom(_, _, _, _)
RECURSIVE MatchRep(_, _, _, _, _)
\* The end (exclusive) of the match of the elements e.. of pat at pos, or NoMatch.
MatchFrom(str, pat, e, pos) ==
    IF e > Len(pat) THEN pos
    ELSE LET el == pat[e]
         IN  IF el.kind = "lit"
             THEN (IF WordAt(str, pos, el.word)
                   THEN MatchFrom(str, pat, e + 1, pos + Len(el.word))
                   ELSE NoMatch)
             ELSE IF el.kind = "opt"
             THEN LET with == IF WordAt(str, pos, el.word)
                              THEN MatchFrom(str, pat, e + 1, pos + Len(el.word))
                              ELSE NoMatch
                  IN  IF with # NoMatch THEN with ELSE MatchFrom(str, pat, e + 1, pos)
             ELSE IF el.kind = "dot"
             THEN (IF InClass(At(str, pos), el)
                   THEN MatchFrom(str, pat, e + 1, pos + 1)
                   ELSE NoMatch)
             ELSE MatchRep(str, pat, e, pos, RunLength(str, el, pos, 0))

\* The element e of pat taking n characters, or fewer when the rest fails.
MatchRep(str, pat, e, pos, n) ==
    IF n < pat[e].min THEN NoMatch
    ELSE LET rest == MatchFrom(str, pat, e + 1, pos + n)
         IN  IF rest # NoMatch THEN rest ELSE MatchRep(str, pat, e, pos, n - 1)

RECURSIVE matchAllFrom(_, _, _, _)
\* str.matchAll(pat) for a global pattern: the matches from lastIndex on, each
\* with its index and the length of match[0].
matchAllFrom(str, pat, lastIndex, acc) ==
    IF lastIndex > Len(str) THEN acc
    ELSE LET index == CHOOSE p \in lastIndex..(Len(str) + 1) :
                         /\ p = Len(str) + 1 \/ MatchFrom(str, pat, 1, p) # NoMatch
                         /\ \A h \in lastIndex..(p - 1) : MatchFrom(str, pat, 1, h) = NoMatch
             end == MatchFrom(str, pat, 1, index)
         IN  IF index > Len(str) THEN acc
             ELSE matchAllFrom(str, pat, IF end = index THEN end + 1 ELSE end,
                               Append(acc, [index |-> index, length |-> end - index]))

matchAll(str, pat) == matchAllFrom(str, pat, 0, <<>>)

Word_class == <<"c", "l", "a", "s", "s">>
Word_Override == <<"@", "O", "v", "e", "r", "r", "i", "d", "e">>
Word_public == <<"p", "u", "b", "l", "i", "c">>
Word_String == <<"S", "t", "r", "i", "n", "g">>
Word_toString == <<"t", "o", "S", "t", "r", "i", "n", "g">>

\* /class\s+([^\s\{]+)[^\{]+/g
classRegExp ==
    << Lit(Word_class), Rep(WhiteSpaceChars, FALSE, 1),
       Rep(WhiteSpaceChars \cup {"{"}, TRUE, 1), Rep({"{"}, TRUE, 1) >>

\* match[1] of classRegExp: the class name, which is what the third element
\* took: the characters after "class" and the white space up to the next
\* white space or brace, less the last one when the header ends there (the
\* fourth element needs one character).
classNameOf(str, m) ==
    LET from == m.index + Len(Word_class)
                + RunLength(str, classRegExp[2], m.index + Len(Word_class), 0)
        run == RunLength(str, classRegExp[3], from, 0)
        to == IF from + run >= m.index + m.length THEN m.index + m.length - 1 ELSE from + run
    IN  slice(str, from, to)

\* OBJECT_OVERRIDES.toString.method.regexp:
\* /\s*(@Override)?\s*public\s+String\s+toString\s*\(\s*\)\s*\{/g
toStringRegExp ==
    << Rep(WhiteSpaceChars, FALSE, 0), Opt(Word_Override), Rep(WhiteSpaceChars, FALSE, 0),
       Lit(Word_public), Rep(WhiteSpaceChars, FALSE, 1), Lit(Word_String),
       Rep(WhiteSpaceChars, FALSE, 1), Lit(Word_toString), Rep(WhiteSpaceChars, FALSE, 0),
       Lit(<<"(">>), Rep(WhiteSpaceChars, FALSE, 0), Lit(<<")">>),
       Rep(WhiteSpaceChars, FALSE, 0), Lit(<<"{">>) >>

(***************************************************************************)
(* commons: JavaClass.  The nodes of a forest live in an arena, a sequence *)
(* of nodes; a node is known by its place in it (its identity), and        *)
(* NoClass stands for null / undefined.                                    *)
(***************************************************************************)
NoClass == 0

RECURSIVE filterComments(_, _, _, _)
\* comments.filter( comment => comment.interval.liesWithin(bodyInterval) )
filterComments(cs, bodyInterval, n, acc) ==
    IF n > Len(cs) THEN acc
    ELSE filterComments(cs, bodyInterval, n + 1,
            IF liesWithin(cs[n].interval, bodyInterval) THEN Append(acc, cs[n]) ELSE acc)

\* JavaClass.of and the constructor.
JavaClassOf(name, signatureInterval, bodyInterval, cs) ==
    [ name |-> name,
      comments |-> filterComments(cs, bodyInterval, 1, <<>>),
      signatureInterval |-> signatureInterval,
      bodyInterval |-> bodyInterval,
      classInterval |-> TextIntervalOf(signatureInterval.startIndex, bodyInterval.endIndex),
      innerClasses |-> <<>>,
      outherClass |-> NoClass ]

\* JavaClass.setOutherClass on node this of the arena.
setOutherClass(nodes, this, outherClass) ==
    IF nodes[this].outherClass # NoClass THEN [threw |-> TRUE, nodes |-> nodes]
    ELSE IF ~liesWithin(nodes[this].classInterval, nodes[outherClass].bodyInterval)
    THEN [threw |-> TRUE, nodes |-> nodes]
    ELSE [threw |-> FALSE, nodes |-> [nodes EXCEPT ![this].outherClass = outherClass]]

\* JavaClass.add on node this of the arena.
add(nodes, this, innerClass) ==
    IF ~liesWithin(nodes[innerClass].classInterval, nodes[this].bodyInterval)
    THEN [threw |-> TRUE, nodes |-> nodes]
    ELSE setOutherClass([nodes EXCEPT ![this].innerClasses = Append(@, innerClass)],
                        innerClass, this)

\* A scope that counts the outher class only, not the classes around it.
getScopeOneLevel(nodes, this) == IF nodes[this].outherClass # NoClass THEN 2 ELSE 1

RECURSIVE getScope(_, _)
\* JavaClass.getScope
getScope(nodes, this) ==
    IF nodes[this].outherClass # NoClass THEN getScope(nodes, nodes[this].outherClass) + 1 ELSE 1

RECURSIVE getEnclosingClass(_, _, _)
RECURSIVE firstPointedClass(_, _, _, _)
\* A lookup that does not look into the inner classes.
getEnclosingClassShallow(nodes, this, index) ==
    IF ~includes(nodes[this].classInterval, index) THEN NoClass ELSE this

\* JavaClass.getEnclosingClass
getEnclosingClass(nodes, this, index) ==
    IF ~includes(nodes[this].classInterval, index) THEN NoClass
    ELSE LET pointedClass == firstPointedClass(nodes, nodes[this].innerClasses, 1, index)
         IN  IF pointedClass # NoClass THEN pointedClass ELSE this

\* The for loop of getEnclosingClass over the inner classes, from the n-th on.
firstPointedClass(nodes, inner, n, index) ==
    IF n > Len(inner) THEN NoClass
    ELSE LET pointedClass == getEnclosingClass(nodes, inner[n], index)
         IN  IF pointedClass # NoClass THEN pointedClass
             ELSE firstPointedClass(nodes, inner, n + 1, index)

RECURSIVE getScopeOfLoop(_, _, _, _, _)
\* The for loop of getScopeOf.
getScopeOfLoop(node, str, i, k, scope) ==
    IF i >= node.bodyInterval.endIndex THEN scope
    ELSE IF k < Len(node.comments) /\ node.comments[k + 1].interval.startIndex <= i
    THEN getScopeOfLoop(node, str, node.comments[k + 1].interval.endIndex + 1, k + 1, scope)
    ELSE LET c == At(str, i)
         IN  IF c = "{" THEN getScopeOfLoop(node, str, i + 1, k, scope + 1)
             ELSE IF c = "}" THEN getScopeOfLoop(node, str, i + 1, k, scope - 1)
             ELSE getScopeOfLoop(node, str,
                     CHOOSE j \in (i + 1)..node.bodyInterval.endIndex :
                        /\ \/ j = node.bodyInterval.endIndex
                           \/ At(str, j) \in {"{", "}"}
                           \/ k < Len(node.comments)
                              /\ node.comments[k + 1].interval.startIndex <= j
                        /\ \A h \in (i + 1)..(j - 1) :
                              /\ At(str, h) \notin {"{", "}"}
                              /\ ~(k < Len(node.comments)
                                   /\ node.comments[k + 1].interval.startIndex <= h),
                     k, scope)

\* JavaClass.getScopeOf
getScopeOf(node, index, str) ==
    getScopeOfLoop(node, str, index, skipCommentsBefore(node.comments, index, 0), 0)

\* JavaClass.belongsToAComment
belongsToAComment(node, index) ==
    \E n \in 1..Len(node.comments) : includes(node.comments[n].interval, index)

\* An insert index that is not tested for white space.
getInsertIndexAnyCharacter(node, javaFileContent, index) ==
    IF ~includes(node.bodyInterval, index) THEN node.bodyInterval.endIndex
    ELSE IF belongsToAComment(node, index) THEN node.bodyInterval.endIndex
    ELSE IF getScopeOf(node, index, javaFileContent) # 0 THEN node.bodyInterval.endIndex
    ELSE index

\* JavaClass.getInsertIndex
getInsertIndex(node, javaFileContent, index) ==
    IF ~includes(node.bodyInterval, index) THEN node.bodyInterval.endIndex
    ELSE IF ~whiteSpace(At(javaFileContent, index)) THEN node.bodyInterval.endIndex
    ELSE IF belongsToAComment(node, index) THEN node.bodyInterval.endIndex
    ELSE IF getScopeOf(node, index, javaFileContent) # 0 THEN node.bodyInterval.endIndex
    ELSE index

(***************************************************************************)
(* parser: class forest builder.  A forest is [threw, nodes, roots]: the   *)
(* arena of the nodes in the order of their headers, the top-level ones,   *)
(* and whether building it raised an error (the forest is then never       *)
(* returned).                                                              *)
(***************************************************************************)
RECURSIVE addAll(_, _, _, _)
\* for( const innerClass of innerClasses ) javaClass.add( innerClass )
addAll(st, this, innerClasses, n) ==
    IF n > Len(innerClasses) \/ st.threw THEN st
    ELSE addAll(add(st.nodes, this, innerClasses[n]), this, innerClasses, n + 1)

RECURSIVE innerMatchesEnd(_, _, _, _)
\* The while loop gathering innerClassMatches: the first match from i on that
\* does not start inside bodyInterval (hi + 1 if none).
innerMatchesEnd(classMatches, bodyInterval, i, hi) ==
    IF i <= hi /\ includes(bodyInterval, classMatches[i].index)
    THEN innerMatchesEnd(classMatches, bodyInterval, i + 1, hi)
    ELSE i

RECURSIVE parseClassesRange(_, _, _, _, _, _)
\* parseClasses over the matches i..hi of classMatches, a contiguous part of
\* the matches of the text; st holds the arena and the classes pushed so far.
parseClassesRange(str, cs, classMatches, i, hi, st) ==
    IF i > hi \/ st.threw THEN st
    ELSE LET classMatch == classMatches[i]
             name == classNameOf(str, classMatch)
             signatureStartIndex == classMatch.index
             signatureEndIndex == signatureStartIndex + classMatch.length - 1
             bodyStartIndex == signatureEndIndex + 1
             bodyEndIndex == moveToClosingBracket(str, bodyStartIndex, cs)
             signatureInterval == TextIntervalOf(signatureStartIndex, signatureEndIndex)
             bodyInterval == TextIntervalOf(bodyStartIndex, bodyEndIndex)
             javaClass == JavaClassOf(name, signatureInterval, bodyInterval, cs)
             threw == Thrown \in {signatureInterval, bodyInterval, javaClass.classInterval}
             next == innerMatchesEnd(classMatches, bodyInterval, i + 1, hi)
             inner == parseClassesRange(str, cs, classMatches, i + 1, next - 1,
                         [threw |-> threw, nodes |-> Append(st.nodes, javaClass), roots |-> <<>>])
             added == addAll([threw |-> inner.threw, nodes |-> inner.nodes], i, inner.roots, 1)
         IN  parseClassesRange(str, cs, classMatches, next, hi,
                [threw |-> added.threw, nodes |-> added.nodes, roots |-> Append(st.roots, i)])

\* parseClasses
parseClasses(str, cs, classMatches) ==
    parseClassesRange(str, cs, classMatches, 1, Len(classMatches),
        [threw |-> FALSE, nodes |-> <<>>, roots |-> <<>>])

\* findClasses
findClasses(str, cs) == parseClasses(str, cs, matchAll(str, classRegExp))

(***************************************************************************)
(* parser: white space around an index, JavaDoc, method locator.           *)
(***************************************************************************)
RECURSIVE includeLeadingWhitespacesFrom(_, _)
includeLeadingWhitespacesFrom(str, i) ==
    IF i < 0 THEN 0
    ELSE IF ~whiteSpace(At(str, i)) THEN i + 1
    ELSE includeLeadingWhitespacesFrom(str, i - 1)

\* includeLeadingWhitespaces
includeLeadingWhitespaces(str, index) ==
    IF index <= 0 THEN index ELSE includeLeadingWhitespacesFrom(str, index - 1)

RECURSIVE includeTrailingWhitespacesFrom(_, _, _)
includeTrailingWhitespacesFrom(str, i, lastNewLineIndex) ==
    IF i >= Len(str) THEN Len(str) - 1
    ELSE IF At(str, i) = "\n" THEN includeTrailingWhitespacesFrom(str, i + 1, i)
    ELSE IF ~whiteSpace(At(str, i)) THEN lastNewLineIndex
    ELSE includeTrailingWhitespacesFrom(str, i + 1, lastNewLineIndex)

\* A scan that stops at the first character that is no white space and
\* returns its index, the indentation of the next line included.
includeTrailingWhitespacesToInk(str, index) ==
    LET ink == {j \in index..(Len(str) - 1) : ~whiteSpace(At(str, j))}
    IN  IF index >= Len(str) - 1 THEN index
        ELSE IF ink = {} THEN Len(str) - 1
        ELSE CHOOSE j \in ink : \A h \in ink : j <= h

\* includeTrailingWhitespaces
includeTrailingWhitespaces(str, index) ==
    IF index >= Len(str) - 1 THEN index ELSE includeTrailingWhitespacesFrom(str, index, index)

RECURSIVE lastCommentBefore(_, _, _)
\* The while loop of findJavaDoc: the place (1-based) of the comment it keeps.
lastCommentBefore(cs, index, i) ==
    IF i < Len(cs) /\ cs[i + 1].interval.endIndex < index
    THEN lastCommentBefore(cs, index, i + 1)
    ELSE i

\* /^\s*$/.test( spaces )
onlyWhiteSpace(spaces) == \A n \in 1..Len(spaces) : whiteSpace(spaces[n])

\* findJavaDoc: [threw, found, comment].  With an empty list comments[0] is
\* undefined and reading its interval raises a TypeError.
NoComment == [type |-> NoCommentType, interval |-> Thrown]

findJavaDoc(str, index, cs) ==
    IF Len(cs) = 0 THEN [threw |-> TRUE, found |-> FALSE, comment |-> NoComment]
    ELSE IF cs[1].interval.endIndex > index
    THEN [threw |-> FALSE, found |-> FALSE, comment |-> NoComment]
    ELSE LET comment == cs[lastCommentBefore(cs, index, 1)]
         IN  IF comment.type # javaDoc
             THEN [threw |-> FALSE, found |-> FALSE, comment |-> NoComment]
             ELSE IF onlyWhiteSpace(slice(str, comment.interval.endIndex + 1, index))
             THEN [threw |-> FALSE, found |-> TRUE, comment |-> comment]
             ELSE [threw |-> FALSE, found |-> FALSE, comment |-> NoComment]

\* includeJavaDoc: [threw, value]
includeJavaDoc(str, index, cs) ==
    LET doc == findJavaDoc(str, index, cs)
    IN  [threw |-> doc.threw,
         value |-> IF doc.found THEN doc.comment.interval.startIndex ELSE index]

\* What an operation hands back: a number, an interval, null, or an error.
Null == [status |-> "null", value |-> -1, interval |-> Thrown]
Threw == [status |-> "throw", value |-> -1, interval |-> Thrown]
Returned(value) == [status |-> "ok", value |-> value, interval |-> Thrown]
ReturnedInterval(interval) ==
    IF interval = Thrown THEN Threw ELSE [status |-> "ok", value |-> -1, interval |-> interval]

\* The body of the if( ownerClass === javaClass ) of findExistingMethod.
existingMethodInterval(str, match, node) ==
    LET methodStartIndex == match.index
        javaDocStartIndex == includeJavaDoc(str, methodStartIndex, node.comments)
        leadingWhiteSpacesStartIndex == includeLeadingWhitespaces(str, javaDocStartIndex.value)
        openBracketIndex == methodStartIndex + match.length
        closeBracketIndex == moveToClosingBracket(str, openBracketIndex, node.comments)
        selectionStartIndex == leadingWhiteSpacesStartIndex
        selectionEndIndex == includeTrailingWhitespaces(str, closeBracketIndex + 1)
    IN  IF javaDocStartIndex.threw THEN Threw
        ELSE ReturnedInterval(TextIntervalOf(selectionStartIndex, selectionEndIndex))

RECURSIVE findExistingMethodFrom(_, _, _, _, _)
\* The for loop of findExistingMethod over allMatches, from the n-th on.
findExistingMethodFrom(str, allMatches, n, nodes, javaClass) ==
    IF n > Len(allMatches) THEN Null
    ELSE IF getEnclosingClass(nodes, javaClass, allMatches[n].index) = javaClass
    THEN existingMethodInterval(str, allMatches[n], nodes[javaClass])
    ELSE findExistingMethodFrom(str, allMatches, n + 1, nodes, javaClass)

\* findExistingMethod
findExistingMethod(javaFileContent, regexp, nodes, javaClass) ==
    findExistingMethodFrom(javaFileContent, matchAll(javaFileContent, regexp), 1, nodes, javaClass)

(***************************************************************************)
(* What the claims about the bracket matcher speak of: the positions       *)
(* covered by a comment span and the brace nesting outside of them.        *)
(***************************************************************************)
\* Index j lies inside one of the comment spans of cs.
InComment(cs, j) == \E n \in 1..Len(cs) : includes(cs[n].interval, j)

\* The braces of str at the positions from..to that no comment span covers.
Braces(str, cs, from, to, brace) ==
    {p \in from..to : At(str, p) = brace /\ ~InComment(cs, p)}

\* Nesting after position j of a block opened at index (1 right after index).
Nesting(str, cs, index, j) ==
    1 + Cardinality(Braces(str, cs, index + 1, j, "{"))
      - Cardinality(Braces(str, cs, index + 1, j, "}"))

\* The positions after index that bring the nesting back to 0.
Closers(str, cs, index) ==
    {j \in (index + 1)..(Len(str) - 1) :
        At(str, j) = "}" /\ ~InComment(cs, j) /\ Nesting(str, cs, index, j) = 0}

\* The close brace matching the block opened at index: the first of the
\* positions that bring the nesting back to 0, when there is one.
RealClosingBracket(str, cs, index) ==
    LET closers == Closers(str, cs, index)
    IN  CHOOSE j \in closers : \A h \in closers : j <= h

(***************************************************************************)
(* The state machine.  A text is given (pc = "text"); findPointedClass     *)
(* scans it into the comment list and the class forest; then the exported  *)
(* operations of the parser and of the class nodes are called on it, one   *)
(* call at a time (pc = "idle" / "returned").  A scan that raised an error *)
(* leaves nothing to call (pc = "failed").                                 *)
(***************************************************************************)
NoForest == [threw |-> FALSE, nodes |-> <<>>, roots |-> <<>>]

\* No call is made.  Of a call of a settings command (clearNerd4JSettings,
\* setProjectType, initMavenProject): the await it is at (step), the value
\* it stores next and the kind of the message it showed.
NoCall == [op |-> "none", index |-> 0, node |-> NoClass, cs |-> <<>>, endIndex |-> 0,
           interval |-> Thrown, outer |-> Thrown, method |-> "none",
           line |-> <<>>, tokens |-> <<>>, name |-> <<>>,
           step |-> "none", value |-> "", message |-> "none"]
NoScan == [i |-> 0, k |-> 0, scope |-> 0, found |-> FALSE, at |-> 0]
NoRet == [status |-> "none", value |-> -1, interval |-> Thrown]

\* No processor is built: no class node, no text it was parsed from
\* (source), no locals of a running generator (the text it read, the code
\* it collected, the accessors still to go through, the method it
\* writes); the cursor of the editor at the start.
NoProcessor == [javaClass |-> NoClass, source |-> <<>>, javaFileContent |-> <<>>,
                cursorIndex |-> 0, code |-> <<>>, accessors |-> <<>>,
                method |-> "none", indentation |-> [step |-> <<>>, base |-> <<>>]]

\* JavaProjectType
plainJava == "Plain Java project"
maven == "Maven project"

\* No Nerd4J setting is stored.
NoSettings == [projectType |-> "", javaOutFolder |-> "", javaLibFolder |-> "",
               mavenLocalRepo |-> ""]

\* No command runs.  Of a command that runs: its name, the statement it is
\* at, the state of the promise of getFields and the fields it was
\* resolved with, the state of the class analysis, the accessor types
\* still to go through, the accessors collected for each field, the fields
\* the user selected, the layout and whether to print the field names,
\* whether the document was edited, the kind of the message shown last,
\* and the settings as they were when the command started.
NoCommand == [name |-> "none", step |-> "none", fields |-> "none", found |-> <<>>,
              analysis |-> "none", selection |-> <<>>, accessorMap |-> <<>>,
              selected |-> <<>>, layout |-> <<>>, printFieldNames |-> FALSE,
              edited |-> FALSE, message |-> "none", before |-> NoSettings]

InitText(texts) ==
    /\ code \in texts
    /\ comments = <<>>
    /\ forest = NoForest
    /\ pc = "text"
    /\ call = NoCall
    /\ ret = NoRet
    /\ globalLastIndex = 0
    /\ scan = NoScan
    /\ processor = NoProcessor
    /\ command = NoCommand
    /\ settings = NoSettings

\* findComments( javaFileContent )
FindComments ==
    /\ pc = "text"
    /\ comments' = findComments(code)
    /\ pc' = "idle"
    /\ UNCHANGED <<code, forest, call, ret, globalLastIndex, scan, processor, command, settings>>

\* The scan of findPointedClass: findComments, then findClasses.
FindClasses ==
    /\ pc = "text"
    /\ comments' = findComments(code)
    /\ forest' = findClasses(code, comments')
    /\ pc' = IF forest'.threw THEN "failed" ELSE "idle"
    /\ UNCHANGED <<code, call, ret, globalLastIndex, scan, processor, command, settings>>

\* The indexes moveToClosingBracket is documented to start from ("assumes
\* the index to point to an open curly bracket"), and the end of the text,
\* where parseClasses starts it for a class header that no brace follows.
OpenBrackets(str) == {i \in 0..Len(str) : At(str, i) = "{" \/ i = Len(str)}

\* moveToClosingBracket(code, index, cs), with the comments of the text or
\* with none (the list of a class that holds no comment).
MoveToClosingBracket ==
    /\ pc = "idle"
    /\ \E index \in OpenBrackets(code), cs \in {comments, <<>>} :
          /\ call' = [NoCall EXCEPT !.op = "moveToClosingBracket", !.index = index, !.cs = cs]
          /\ ret' = Returned(moveToClosingBracket(code, index, cs))
    /\ pc' = "returned"
    /\ UNCHANGED <<code, comments, forest, globalLastIndex, scan, processor, command, settings>>

Nodes == 1..Len(forest.nodes)

\* javaClass.getEnclosingClass( index ) on a node of the forest.
GetEnclosingClass ==
    /\ pc = "idle"
    /\ \E node \in Nodes, index \in 0..Len(code) :
          /\ call' = [NoCall EXCEPT !.op = "getEnclosingClass", !.node = node, !.index = index]
          /\ ret' = LET pointedClass == getEnclosingClass(forest.nodes, node, index)
                    IN  IF pointedClass = NoClass THEN Null ELSE Returned(pointedClass)
    /\ pc' = "returned"
    /\ UNCHANGED <<code, comments, forest, globalLastIndex, scan, processor, command, settings>>

\* javaClass.getInsertIndex( javaFileContent, index ) on a node of the forest.
GetInsertIndex ==
    /\ pc = "idle"
    /\ \E node \in Nodes, index \in (-1)..(Len(code) + 1) :
          /\ call' = [NoCall EXCEPT !.op = "getInsertIndex", !.node = node, !.index = index]
          /\ ret' = Returned(getInsertIndex(forest.nodes[node], code, index))
    /\ pc' = "returned"
    /\ UNCHANGED <<code, comments, forest, globalLastIndex, scan, processor, command, settings>>

\* findExistingMethod( javaFileContent, regexp, javaClass ) with the pattern
\* of the toString override, for a node of the forest.
FindExistingMethod ==
    /\ pc = "idle"
    /\ \E node \in Nodes :
          /\ call' = [NoCall EXCEPT !.op = "findExistingMethod", !.node = node,
                                    !.method = "toString"]
          /\ ret' = findExistingMethod(code, toStringRegExp, forest.nodes, node)
    /\ pc' = "returned"
    /\ UNCHANGED <<code, comments, forest, globalLastIndex, scan, processor, command, settings>>

\* TextInterval.of( startIndex, endIndex )
TextIntervalOfCall ==
    /\ pc = "idle"
    /\ \E startIndex \in (-MaxIndex)..MaxIndex, endIndex \in (-MaxIndex)..MaxIndex :
          /\ call' = [NoCall EXCEPT !.op = "TextInterval.of", !.index = startIndex,
                                    !.endIndex = endIndex]
          /\ ret' = ReturnedInterval(TextIntervalOf(startIndex, endIndex))
    /\ pc' = "returned"
    /\ UNCHANGED <<code, comments, forest, globalLastIndex, scan, processor, command, settings>>

\* The caller takes the result; the next call can be made.
Return ==
    /\ pc = "returned"
    /\ pc' = "idle"
    /\ call' = NoCall
    /\ ret' = NoRet
    /\ UNCHANGED <<code, comments, forest, globalLastIndex, scan, processor, command, settings>>

(***************************************************************************)
(* The texts.                                                              *)
(***************************************************************************)
Tok_classA == <<"c", "l", "a", "s", "s", " ", "A", " ", "{">>
Tok_classB == <<"c", "l", "a", "s", "s", " ", "B", " ">>
Tok_toString == Word_public \o <<" ">> \o Word_String \o <<" ">> \o Word_toString
                \o <<"(", ")", "{">>

\* Braces and comment markers.
BracketTokens ==
    { <<"{">>, <<"}">>, <<"/", "*", " ">>, <<"*", "/">>, <<"/", "/">>, <<"\n">> }

\* Class headers with and without their brace, braces, block comment markers.
ForestTokens ==
    { Tok_classA, Tok_classB, <<"{">>, <<"}">>, <<"/", "*", " ">>, <<"*", "/">> }

\* What follows the header of a class: line ends, blocks, and a line comment
\* that opens with a block comment end.
InsertTokens == { <<"\n">>, <<"{">>, <<"}">>, <<"/", "/", "*", "/">> }

\* What follows the header of a class: inner classes, toString methods,
\* close braces, line ends and line comments.
MethodTokens == { Tok_classA, Tok_toString, <<"}">>, <<"\n">>, <<"/", "/">> }

(***************************************************************************)
(* The specifications.                                                     *)
(***************************************************************************)
\* The bracket matcher on texts of braces and comments.
InitBracket == InitText(TextsOf(BracketTokens, MaxBracketTokens))
NextBracket == FindComments \/ MoveToClosingBracket \/ Return
SpecBracket == InitBracket /\ [][NextBracket]_vars

\* The class forest and the lookup of the enclosing class.
InitForest == InitText(TextsOf(ForestTokens, MaxForestTokens))
NextForest == FindClasses \/ GetEnclosingClass \/ Return
SpecForest == InitForest /\ [][NextForest]_vars

\* The insertion index in the body of one class.
InitInsert == InitText({Tok_classA \o body : body \in TextsOf(InsertTokens, MaxInsertTokens)})
NextInsert == FindClasses \/ GetInsertIndex \/ Return
SpecInsert == InitInsert /\ [][NextInsert]_vars

\* The method locator.
InitMethod == InitText({Tok_classA \o body : body \in TextsOf(MethodTokens, MaxMethodTokens)})
NextMethod == FindClasses \/ FindExistingMethod \/ Return
SpecMethod == InitMethod /\ [][NextMethod]_vars

\* The construction of intervals.
InitInterval ==
    /\ code = <<>>
    /\ comments = <<>>
    /\ forest = NoForest
    /\ pc = "idle"
    /\ call = NoCall
    /\ ret = NoRet
    /\ globalLastIndex = 0
    /\ scan = NoScan
    /\ processor = NoProcessor
    /\ command = NoCommand
    /\ settings = NoSettings
NextInterval == TextIntervalOfCall \/ Return
SpecInterval == InitInterval /\ [][NextInterval]_vars

(***************************************************************************)
(* Claims about the bracket matcher (SpecBracket).                         *)
(***************************************************************************)
CalledClosingBracket == pc = "returned" /\ call.op = "moveToClosingBracket"

\* C1: with the comment list findComments produces for the text, the matcher
\* started at an open brace outside every comment returns the close brace
\* that brings the nesting of the braces outside comments back to 0, and
\* never an index inside a comment span.
C1_ClosingBracketSkipsComments ==
    (/\ CalledClosingBracket
     /\ call.cs = comments
     /\ At(code, call.index) = "{"
     /\ ~InComment(call.cs, call.index))
    => /\ ~InComment(call.cs, ret.value)
       /\ Closers(code, call.cs, call.index) # {}
             => ret.value = RealClosingBracket(code, call.cs, call.index)

\* C8: with an empty comment list, the matcher started at an open brace that
\* has a matching close brace returns the smallest j > index at which the
\* '}' of (index, j] outnumber its '{'.
C8_ClosingBracketNoComments ==
    (/\ CalledClosingBracket
     /\ call.cs = <<>>
     /\ At(code, call.index) = "{"
     /\ \E j \in (call.index + 1)..(Len(code) - 1) : Nesting(code, <<>>, call.index, j) = 0)
    => /\ ret.value > call.index
       /\ Nesting(code, <<>>, call.index, ret.value) = 0
       /\ \A j \in (call.index + 1)..(ret.value - 1) : Nesting(code, <<>>, call.index, j) # 0

\* C8's case: a nested block ("{A{B}C}"): the match is not the first '}'.
C8_Witness ==
    /\ CalledClosingBracket
    /\ call.cs = <<>>
    /\ At(code, call.index) = "{"
    /\ ret.value > call.index
    /\ \E j \in (call.index + 1)..(ret.value - 1) : At(code, j) = "}"
    /\ \E j \in (call.index + 1)..(ret.value - 1) : At(code, j) \notin {"{", "}"}

\* C9: the matcher returns its input index whenever no position after the
\* index brings the nesting (comment spans skipped) back to 0.
C9_ClosingBracketNotFound ==
    (/\ CalledClosingBracket
     /\ Closers(code, call.cs, call.index) = {})
    => ret.value = call.index

(***************************************************************************)
(* What the claims about the class nodes speak of.                         *)
(***************************************************************************)
Node(n) == forest.nodes[n]

\* Index i lies inside the class interval of node n.
Contains(n, i) == includes(Node(n).classInterval, i)

\* The header of node b lies strictly inside the body of node a.
HeaderInside(a, b) ==
    /\ Node(a).bodyInterval.startIndex < Node(b).signatureInterval.startIndex
    /\ Node(b).signatureInterval.endIndex < Node(a).bodyInterval.endIndex

\* Node b is nested in node a with no class in between.
DirectlyInside(a, b) ==
    /\ HeaderInside(a, b)
    /\ ~\E c \in Nodes : HeaderInside(a, c) /\ HeaderInside(c, b)

\* Node n is the innermost node whose class interval holds index i.
Innermost(n, i) ==
    /\ Contains(n, i)
    /\ \A c \in Nodes \ {n} :
          Contains(c, i) => liesWithin(Node(n).classInterval, Node(c).bodyInterval)

InnerClassesOf(a) == {Node(a).innerClasses[k] : k \in 1..Len(Node(a).innerClasses)}

(***************************************************************************)
(* Claims about the class forest (SpecForest).                             *)
(***************************************************************************)
\* C4: when the header of class B lies strictly inside the body of class A
\* (directly), the forest is built with B among the inner classes of A and
\* A as B's outer class; getEnclosingClass on A returns B for every index
\* of B's class interval of which B is the innermost class, and null for
\* every index outside A's class interval.
C4_NestedClassIsInner ==
    /\ \A a \in Nodes, b \in Nodes :
          DirectlyInside(a, b)
          => /\ pc # "failed"
             /\ Node(b).outherClass = a
             /\ b \in InnerClassesOf(a)
    /\ (pc = "returned" /\ call.op = "getEnclosingClass")
       => /\ ~Contains(call.node, call.index) => ret = Null
          /\ \A b \in Nodes :
                (HeaderInside(call.node, b) /\ Innermost(b, call.index))
                => ret = Returned(b)

\* C6: scanning a text into its comments and its class forest never raises
\* an error.
C6_ScanNeverRaises == pc # "failed"

(***************************************************************************)
(* Claims about the insertion index (SpecInsert).                          *)
(***************************************************************************)
\* The braces outside the comments of the class from index i to the end of
\* its body are not balanced: i lies in a nested block.
InNestedBlock(node, i) ==
    Cardinality(Braces(code, node.comments, i, node.bodyInterval.endIndex - 1, "{"))
    # Cardinality(Braces(code, node.comments, i, node.bodyInterval.endIndex - 1, "}"))

\* C3: getInsertIndex returns the end of the body when the index is outside
\* the body, holds no white space, lies in a comment of the class or in a
\* nested block, and the index itself otherwise.
C3_InsertIndex ==
    (pc = "returned" /\ call.op = "getInsertIndex")
    => LET node == Node(call.node)
       IN  ret.value =
              IF \/ ~includes(node.bodyInterval, call.index)
                 \/ ~whiteSpace(At(code, call.index))
                 \/ InComment(node.comments, call.index)
                 \/ InNestedBlock(node, call.index)
              THEN node.bodyInterval.endIndex
              ELSE call.index

(***************************************************************************)
(* Claims about the method locator (SpecMethod).                           *)
(***************************************************************************)
CalledFindExistingMethod == pc = "returned" /\ call.op = "findExistingMethod"

MethodMatches == matchAll(code, toStringRegExp)

\* The matches of the pattern that lie directly in class n.
OwnedMatches(n) ==
    {k \in 1..Len(MethodMatches) : Innermost(n, MethodMatches[k].index)}

\* The first index at or after i that holds no white space.
RECURSIVE SkipWhiteSpace(_)
SkipWhiteSpace(i) == IF whiteSpace(At(code, i)) THEN SkipWhiteSpace(i + 1) ELSE i

\* The first index of the white space run that ends right before index i.
RECURSIVE WhiteSpaceRunStart(_)
WhiteSpaceRunStart(i) ==
    IF i > 0 /\ whiteSpace(At(code, i - 1)) THEN WhiteSpaceRunStart(i - 1) ELSE i

\* C2: for a class that directly holds a method the pattern matches up to
\* its open brace, findExistingMethod returns the interval from the start
\* of the white space before the signature through the close brace that
\* matches that open brace, with nothing but white space after it.  (The
\* call raising an error is C7's matter and is left aside here.)
C2_ExistingMethodInterval ==
    (/\ CalledFindExistingMethod
     /\ OwnedMatches(call.node) # {}
     /\ ret.status # "throw")
    => LET k == CHOOSE k \in OwnedMatches(call.node) : \A h \in OwnedMatches(call.node) : k <= h
           match == MethodMatches[k]
           open == match.index + match.length - 1
           close == RealClosingBracket(code, comments, open)
       IN  Closers(code, comments, open) # {}
           => /\ ret.status = "ok"
              /\ ret.interval.startIndex = WhiteSpaceRunStart(SkipWhiteSpace(match.index))
              /\ ret.interval.endIndex >= close
              /\ \A j \in (close + 1)..(ret.interval.endIndex - 1) : whiteSpace(At(code, j))

\* C5: findExistingMethod for an outer class returns null when every match
\* of the pattern starts inside an inner class of that class.
C5_InnerMethodNotOwned ==
    (/\ CalledFindExistingMethod
     /\ \A k \in 1..Len(MethodMatches) :
           \E b \in InnerClassesOf(call.node) : Contains(b, MethodMatches[k].index))
    => ret = Null

\* C5's case: the pattern matches, in an inner class of the target only.
C5_Witness ==
    /\ CalledFindExistingMethod
    /\ MethodMatches # <<>>
    /\ \A k \in 1..Len(MethodMatches) :
          \E b \in InnerClassesOf(call.node) : Contains(b, MethodMatches[k].index)
    /\ ret = Null

\* C7: findExistingMethod never fails: it returns null or an interval.
C7_FindExistingMethodNeverFails ==
    CalledFindExistingMethod
    => \/ ret = Null
       \/ /\ ret.status = "ok"
          /\ 0 <= ret.interval.startIndex
          /\ ret.interval.startIndex <= ret.interval.endIndex

(***************************************************************************)
(* Claims about intervals (SpecInterval).                                  *)
(***************************************************************************)
\* C10: TextInterval.of(s, e) returns the interval [s, e] exactly when
\* 0 <= s <= e and raises an error for every other pair; an interval that
\* exists has size >= 1.
C10_IntervalConstruction ==
    (pc = "returned" /\ call.op = "TextInterval.of")
    => IF 0 <= call.index /\ call.index <= call.endIndex
       THEN /\ ret.status = "ok"
            /\ ret.interval.startIndex = call.index
            /\ ret.interval.endIndex = call.endIndex
            /\ size(ret.interval) >= 1
       ELSE ret = Threw

\* C10's case: an inverted pair of non-negative bounds is refused.
C10_Witness ==
    /\ pc = "returned"
    /\ call.op = "TextInterval.of"
    /\ 0 <= call.endIndex
    /\ call.endIndex < call.index
    /\ ret = Threw

(***************************************************************************)
(* The tests of an interval: includes and liesWithin, on the intervals     *)
(* that exist within 0..MaxIndex.                                          *)
(***************************************************************************)
Intervals ==
    {i \in [startIndex : 0..MaxIndex, endIndex : 0..MaxIndex] :
        TextIntervalOf(i.startIndex, i.endIndex) # Thrown}

\* interval.includes( index )
IncludesCall ==
    /\ pc = "idle"
    /\ \E interval \in Intervals, index \in (-1)..(MaxIndex + 1) :
          /\ call' = [NoCall EXCEPT !.op = "includes", !.interval = interval, !.index = index]
          /\ ret' = Returned(includes(interval, index))
    /\ pc' = "returned"
    /\ UNCHANGED <<code, comments, forest, globalLastIndex, scan, processor, command, settings>>

\* interval.liesWithin( outer )
LiesWithinCall ==
    /\ pc = "idle"
    /\ \E interval \in Intervals, outer \in Intervals :
          /\ call' = [NoCall EXCEPT !.op = "liesWithin", !.interval = interval, !.outer = outer]
          /\ ret' = Returned(liesWithin(interval, outer))
    /\ pc' = "returned"
    /\ UNCHANGED <<code, comments, forest, globalLastIndex, scan, processor, command, settings>>

NextContain == IncludesCall \/ LiesWithinCall \/ Return
SpecContain == InitInterval /\ [][NextContain]_vars

\* C11: includes(i) is true exactly when start <= i <= end, and
\* liesWithin(outer) exactly when outer.start <= start and end <= outer.end.
C11_IntervalTests ==
    /\ (pc = "returned" /\ call.op = "includes")
       => (ret.value = TRUE
           <=> (call.interval.startIndex <= call.index
                /\ call.index <= call.interval.endIndex))
    /\ (pc = "returned" /\ call.op = "liesWithin")
       => (ret.value = TRUE
           <=> (call.outer.startIndex <= call.interval.startIndex
                /\ call.interval.endIndex <= call.outer.endIndex))

\* C11's case: an interval that starts inside the outer one and ends after
\* it does not lie within it.
C11_Witness ==
    /\ pc = "returned"
    /\ call.op = "liesWithin"
    /\ call.outer.startIndex < call.interval.startIndex
    /\ call.interval.startIndex <= call.outer.endIndex
    /\ call.outer.endIndex < call.interval.endIndex
    /\ ret.value = FALSE

(***************************************************************************)
(* The imports (JavaClassProcessor.fixImport).  A document is a package    *)
(* line, some import lines and blank lines, and a class.  The code each    *)
(* generator writes goes into the body of the class, after every import,   *)
(* and holds no import statement, so the imports of the document change    *)
(* through fixImport only.                                                 *)
(***************************************************************************)
MaxImportLines == 2

Word_import == <<"i", "m", "p", "o", "r", "t">>
Word_org == <<"o", "r", "g">>
Word_nerd4j == <<"n", "e", "r", "d", "4", "j">>
Word_utils == <<"u", "t", "i", "l", "s">>
Word_lang == <<"l", "a", "n", "g">>
Word_ToString == <<"T", "o", "S", "t", "r", "i", "n", "g">>
Word_Hashcode == <<"H", "a", "s", "h", "c", "o", "d", "e">>
Word_Equals == <<"E", "q", "u", "a", "l", "s">>

\* /import\s+org.nerd4j.utils.lang.<name>\s*;\s*/
importRegExpOf(name) ==
    << Lit(Word_import), Rep(WhiteSpaceChars, FALSE, 1), Lit(Word_org), Dot,
       Lit(Word_nerd4j), Dot, Lit(Word_utils), Dot, Lit(Word_lang), Dot, Lit(name),
       Rep(WhiteSpaceChars, FALSE, 0), Lit(<<";">>), Rep(WhiteSpaceChars, FALSE, 0) >>

\* /import\s+org.nerd4j.utils.lang.\*\s*;\s*/g
GLOBAL_IMPORT_REGEXP == importRegExpOf(<<"*">>)

\* import.code of a method of OBJECT_OVERRIDES
importCodeOf(name) ==
    Word_import \o <<" ">> \o Word_org \o <<".">> \o Word_nerd4j \o <<".">>
    \o Word_utils \o <<".">> \o Word_lang \o <<".">> \o name \o <<";">>

\* OBJECT_OVERRIDES: the class each method imports.
ObjectMethods == {"toString", "hashCode", "equals"}
importNameOf(method) ==
    IF method = "toString" THEN Word_ToString
    ELSE IF method = "hashCode" THEN Word_Hashcode
    ELSE Word_Equals

\* The first match of pat in str that starts at pos or after it: its index
\* and its end (exclusive), or NoMatch twice.
searchFrom(str, pat, pos) ==
    LET starts == {p \in pos..Len(str) : MatchFrom(str, pat, 1, p) # NoMatch}
    IN  IF starts = {} THEN [index |-> NoMatch, end |-> NoMatch]
        ELSE LET first == CHOOSE p \in starts : \A q \in starts : p <= q
             IN  [index |-> first, end |-> MatchFrom(str, pat, 1, first)]

\* regexp.exec(str) of a pattern without the g flag: it searches from 0.
exec(str, pat) == searchFrom(str, pat, 0).index # NoMatch

\* regexp.exec(str) of a pattern with the g flag: it searches from
\* regexp.lastIndex, which it leaves at the end of the match, or at 0 when
\* nothing matched.
execGlobal(str, pat, from) ==
    LET m == searchFrom(str, pat, from)
    IN  IF m.index # NoMatch THEN [found |-> TRUE, lastIndex |-> m.end]
        ELSE [found |-> FALSE, lastIndex |-> 0]

\* The offset of new vscode.Position( 1, 0 ): the start of the second line.
RECURSIVE secondLineFrom(_, _)
secondLineFrom(str, i) ==
    IF i >= Len(str) THEN Len(str)
    ELSE IF At(str, i) = "\n" THEN i + 1
    ELSE secondLineFrom(str, i + 1)

\* editBuilder.insert( position, `\n${importCode}${suffix}` )
insertImport(str, importCode) ==
    LET position == secondLineFrom(str, 0)
        suffix == IF At(str, position) = "\n" THEN <<>> ELSE <<"\n">>
    IN  slice(str, 0, position) \o <<"\n">> \o importCode \o suffix
        \o slice(str, position, Len(str))

\* fixImport( importRegExp, importCode ): the new text, the new lastIndex of
\* GLOBAL_IMPORT_REGEXP, and whether the import was inserted.
fixImport(str, name, from) ==
    IF exec(str, importRegExpOf(name))
    THEN [text |-> str, lastIndex |-> from, inserted |-> FALSE]
    ELSE LET global == execGlobal(str, GLOBAL_IMPORT_REGEXP, from)
         IN  IF global.found
             THEN [text |-> str, lastIndex |-> global.lastIndex, inserted |-> FALSE]
             ELSE [text |-> insertImport(str, importCodeOf(name)),
                   lastIndex |-> global.lastIndex, inserted |-> TRUE]

\* The lines of a document.
Line_package == <<"p", "a", "c", "k", "a", "g", "e", " ", "p", ";", "\n">>
Line_class == <<"c", "l", "a", "s", "s", " ", "A", " ", "{", "}", "\n">>
ImportLines ==
    { <<"\n">>, importCodeOf(<<"*">>) \o <<"\n">> }
    \cup { importCodeOf(importNameOf(method)) \o <<"\n">> : method \in ObjectMethods }

Documents ==
    { Line_package \o head \o Line_class : head \in TextsOf(ImportLines, MaxImportLines) }

\* The text holds the import statement of the class called name ("*" for
\* the wildcard import).
ImportPresent(str, name) ==
    \E p \in 0..Len(str) : MatchFrom(str, importRegExpOf(name), 1, p) # NoMatch

(***************************************************************************)
(* commons: AccessorImplementation, Field.                                 *)
(***************************************************************************)
MaxTokenLength == 2

\* enum AccessorImplementation
none == "none"
inCurrentClass == "inCurrentClass"
inAncestorClass == "inAncestorClass"

RECURSIVE trimStart(_)
trimStart(str) ==
    IF Len(str) > 0 /\ whiteSpace(Head(str)) THEN trimStart(Tail(str)) ELSE str

RECURSIVE trimEnd(_)
trimEnd(str) ==
    IF Len(str) > 0 /\ whiteSpace(str[Len(str)])
    THEN trimEnd(SubSeq(str, 1, Len(str) - 1)) ELSE str

\* str.trim()
trim(str) == trimEnd(trimStart(str))

RECURSIVE splitFrom(_, _, _, _)
\* str.split( separator ) for a separator of one character: the pieces
\* between its occurrences, empty pieces included.
splitFrom(str, separator, n, acc) ==
    IF n > Len(str) THEN acc
    ELSE IF str[n] = separator THEN splitFrom(str, separator, n + 1, Append(acc, <<>>))
    ELSE splitFrom(str, separator, n + 1,
            [acc EXCEPT ![Len(acc)] = Append(@, str[n])])

split(str, separator) == splitFrom(str, separator, 1, << <<>> >>)

\* values[k] of an array (0-based), undefined past its end.
ValueAt(values, k) == IF k + 1 <= Len(values) THEN values[k + 1] ELSE <<Undefined>>

\* A conversion that takes every outcome but '1' for an ancestor's accessor.
toAccessorImplementationOneOrAncestor(analysisOutcome) ==
    IF analysisOutcome = <<"1">> THEN inCurrentClass ELSE inAncestorClass

\* Field.toAccessorImplementation
toAccessorImplementation(analysisOutcome) ==
    IF analysisOutcome = <<"1">> THEN inCurrentClass
    ELSE IF analysisOutcome = <<"2">> THEN inAncestorClass
    ELSE none

\* Field.of and the constructor.
FieldOf(enclosingClass, analysisOutcome) ==
    LET values == split(trim(analysisOutcome), " ")
        accessorImplementation == toAccessorImplementation(ValueAt(values, 2))
    IN  [ name |-> ValueAt(values, 1),
          type |-> ValueAt(values, 0),
          enclosingClass |-> enclosingClass,
          accessorImplementation |-> accessorImplementation ]

\* The lines of the class analyzer: "type name" or "type name flag", the
\* tokens separated by one space, with or without white space around.
TokenChars == {"a", "1", "2"}
Tokens == UNION {[1..n -> TokenChars] : n \in 1..MaxTokenLength}
ClassNames == {<<"A">>, <<"B">>}
Paddings == { <<>>, <<" ">>, <<"\n">> }

RECURSIVE JoinTokens(_)
JoinTokens(tokens) ==
    IF Len(tokens) = 1 THEN tokens[1]
    ELSE tokens[1] \o <<" ">> \o JoinTokens(Tail(tokens))

\* Field.of( enclosingClass, analysisOutcome )
FieldOfCall ==
    /\ pc = "idle"
    /\ \E enclosingClass \in ClassNames, type \in Tokens, name \in Tokens,
          flag \in Tokens \cup {<<>>}, before \in Paddings, after \in Paddings :
          LET tokens == IF flag = <<>> THEN <<type, name>> ELSE <<type, name, flag>>
              line == before \o JoinTokens(tokens) \o after
          IN  /\ call' = [NoCall EXCEPT !.op = "Field.of", !.name = enclosingClass,
                                        !.tokens = tokens, !.line = line]
              /\ ret' = Returned(FieldOf(enclosingClass, line))
    /\ pc' = "returned"
    /\ UNCHANGED <<code, comments, forest, globalLastIndex, scan, processor, command, settings>>

NextField == FieldOfCall \/ Return
SpecField == InitInterval /\ [][NextField]_vars

\* C13: Field.of(enclosingClass, "type name [flag]") yields the field whose
\* type is the first token, whose name is the second and whose class is the
\* given one; its accessorImplementation is inCurrentClass for the flag '1',
\* inAncestorClass for '2', and none for any other flag or none at all.
C13_FieldOfLine ==
    (pc = "returned" /\ call.op = "Field.of")
    => /\ ret.value.type = call.tokens[1]
       /\ ret.value.name = call.tokens[2]
       /\ ret.value.enclosingClass = call.name
       /\ ret.value.accessorImplementation =
             IF Len(call.tokens) = 3 /\ call.tokens[3] = <<"1">> THEN inCurrentClass
             ELSE IF Len(call.tokens) = 3 /\ call.tokens[3] = <<"2">> THEN inAncestorClass
             ELSE none

\* C13's case: a padded line with a flag that starts with '2' but is not
\* '2' gives no accessor implementation.
C13_Witness ==
    /\ pc = "returned"
    /\ call.op = "Field.of"
    /\ Len(call.tokens) = 3
    /\ Len(call.tokens[3]) = 2
    /\ call.tokens[3][1] = "2"
    /\ Len(call.line) > Len(JoinTokens(call.tokens))
    /\ ret.value.accessorImplementation = none

(***************************************************************************)
(* commons: Accessor, Getter, Setter, Wither.                              *)
(***************************************************************************)
MaxNameLength == 3

\* A conversion that leaves every character as it is.
keepCase(c) == c

\* c.toUpperCase() on the characters of the model.
toUpperCase(c) ==
    IF c = "m" THEN "M"
    ELSE IF c = "f" THEN "F"
    ELSE c

\* str.charAt( 0 ): the first character, the empty string if there is none.
charAt0(str) == IF Len(str) > 0 THEN <<str[1]>> ELSE <<>>

\* Accessor.constructor; prefix tells a Getter, a Setter and a Wither apart.
AccessorOf(prefix, field, returnType) ==
    LET fieldName == field.name
    IN  [ prefix |-> prefix,
          field |-> field,
          returnType |-> returnType,
          name |-> prefix \o [n \in 1..Len(charAt0(fieldName)) |-> toUpperCase(charAt0(fieldName)[n])]
                   \o slice(fieldName, 1, Len(fieldName)) ]

Word_get == <<"g", "e", "t">>
Word_set == <<"s", "e", "t">>
Word_with == <<"w", "i", "t", "h">>
Word_void == <<"v", "o", "i", "d">>

\* Getter.of, Setter.of, Wither.of and their constructors.
GetterOf(field) == AccessorOf(Word_get, field, field.type)
SetterOf(field) == AccessorOf(Word_set, field, Word_void)
WitherOf(field) == AccessorOf(Word_with, field, field.enclosingClass)

AccessorKinds == {"Getter", "Setter", "Wither"}
AccessorOfKind(kind, field) ==
    IF kind = "Getter" THEN GetterOf(field)
    ELSE IF kind = "Setter" THEN SetterOf(field)
    ELSE WitherOf(field)

\* The names of the fields: lower and upper case letters, a digit, an
\* underscore.
NameChars == {"m", "f", "F", "1", "_"}
FieldNames == UNION {[1..n -> NameChars] : n \in 1..MaxNameLength}

\* Getter.of( field ), Setter.of( field ), Wither.of( field ) for a field the
\* class analyzer reported.
AccessorOfCall ==
    /\ pc = "idle"
    /\ \E kind \in AccessorKinds, fieldName \in FieldNames, flag \in {<<"0">>, <<"2">>} :
          LET line == JoinTokens(<< <<"T">>, fieldName, flag >>)
              field == FieldOf(<<"A">>, line)
          IN  /\ call' = [NoCall EXCEPT !.op = "Accessor.of", !.method = kind,
                                        !.name = fieldName, !.line = line]
              /\ ret' = Returned(AccessorOfKind(kind, field))
    /\ pc' = "returned"
    /\ UNCHANGED <<code, comments, forest, globalLastIndex, scan, processor, command, settings>>

NextAccessor == AccessorOfCall \/ Return
SpecAccessor == InitInterval /\ [][NextAccessor]_vars

\* The prefix of each kind of accessor.
PrefixOf(kind) ==
    IF kind = "Getter" THEN <<"g", "e", "t">>
    ELSE IF kind = "Setter" THEN <<"s", "e", "t">>
    ELSE <<"w", "i", "t", "h">>

\* The upper case letter of each lower case letter of the model.
UpperCaseOf(c) == IF c = "m" THEN "M" ELSE IF c = "f" THEN "F" ELSE c

\* C14: the name of the accessor Getter.of, Setter.of or Wither.of builds
\* for a field with a name is 'get', 'set' or 'with' followed by the name
\* of the field with its first character in upper case and the others as
\* they are.
C14_AccessorName ==
    (pc = "returned" /\ call.op = "Accessor.of")
    => LET prefix == PrefixOf(call.method)
           name == ret.value.name
       IN  /\ Len(name) = Len(prefix) + Len(call.name)
           /\ SubSeq(name, 1, Len(prefix)) = prefix
           /\ name[Len(prefix) + 1] = UpperCaseOf(call.name[1])
           /\ \A n \in 2..Len(call.name) : name[Len(prefix) + n] = call.name[n]

\* C14's case: 'mfm' gives 'getMfm': the first letter is raised, a later
\* lower case letter is not.
C14_Witness ==
    /\ pc = "returned"
    /\ call.op = "Accessor.of"
    /\ call.method = "Getter"
    /\ call.name = <<"m", "f", "m">>
    /\ ret.value.name = <<"g", "e", "t", "M", "f", "m">>

(***************************************************************************)
(* The accessors that exist already (inseertOrReplaceAccessors).           *)
(***************************************************************************)
MaxRegenerateTokens == 5

\* paramContent() of a Getter ('') and of a Setter or a Wither
\* (` ${this.field.type} ${this.field.name} `).
paramContent(accessor) ==
    IF accessor.prefix = Word_get THEN <<>>
    ELSE <<" ">> \o accessor.field.type \o <<" ">> \o accessor.field.name \o <<" ">>

\* this.paramContent().replace( ' ', '\\s*' ) as a pattern: the first space
\* becomes \s*, the other characters stand for themselves.
paramPattern(accessor) ==
    LET param == paramContent(accessor)
    IN  IF param = <<>> THEN <<>>
        ELSE << Rep(WhiteSpaceChars, FALSE, 0), Lit(Tail(param)) >>

\* new RegExp( accessor.regexPattern(), 'g' ):
\* /(@Override)?\s*public\s+[^\s]+\s+<name>\s*\(<param>\)\s*\{[^\}]*\}/g
regexPattern(accessor) ==
    << Opt(Word_Override), Rep(WhiteSpaceChars, FALSE, 0), Lit(Word_public),
       Rep(WhiteSpaceChars, FALSE, 1), Rep(WhiteSpaceChars, TRUE, 1),
       Rep(WhiteSpaceChars, FALSE, 1), Lit(accessor.name), Rep(WhiteSpaceChars, FALSE, 0),
       Lit(<<"(">>) >>
    \o paramPattern(accessor)
    \o << Lit(<<")">>), Rep(WhiteSpaceChars, FALSE, 0), Lit(<<"{">>),
          Rep({"}"}, TRUE, 0), Lit(<<"}">>) >>

\* The getter of the field "T f" of class A.
GetterOfF == GetterOf(FieldOf(<<"A">>, <<"T", " ", "f", " ", "0">>))

\* findExistingMethod( javaFileContent, regexp, javaClass ) with the pattern
\* of a getter, for a node of the forest.
FindExistingAccessor ==
    /\ pc = "idle"
    /\ \E node \in Nodes :
          /\ call' = [NoCall EXCEPT !.op = "findExistingMethod", !.node = node,
                                    !.method = "getter"]
          /\ ret' = findExistingMethod(code, regexPattern(GetterOfF), forest.nodes, node)
    /\ pc' = "returned"
    /\ UNCHANGED <<code, comments, forest, globalLastIndex, scan, processor, command, settings>>

\* A class with toString methods and getters up to their open brace, close
\* braces, line ends and line comments.
Tok_getF == Word_public \o <<" ", "T", " ">> \o GetterOfF.name \o <<"(", ")", "{">>
RegenerateTokens == { Tok_toString, Tok_getF, <<"}">>, <<"\n">>, <<"/", "/">> }

InitRegenerate ==
    InitText({Tok_classA \o body : body \in TextsOf(RegenerateTokens, MaxRegenerateTokens)})
NextRegenerate == FindClasses \/ FindExistingMethod \/ FindExistingAccessor \/ Return
SpecRegenerate == InitRegenerate /\ [][NextRegenerate]_vars

\* The matches of the pattern of the call, and the first of them that lies
\* directly in the class of the call.
PatternMatches ==
    matchAll(code, IF call.method = "getter" THEN regexPattern(GetterOfF) ELSE toStringRegExp)
LocatedMatch ==
    LET owned == {k \in 1..Len(PatternMatches) : Innermost(call.node, PatternMatches[k].index)}
    IN  PatternMatches[CHOOSE k \in owned : \A h \in owned : k <= h]

\* The located method has a close brace: the one that ends the match of an
\* accessor pattern, or the one that matches the open brace that ends the
\* match of a pattern of config.ts.
LocatedHasClose ==
    \/ call.method = "getter"
    \/ Closers(code, comments, LocatedMatch.index + LocatedMatch.length - 1) # {}
LocatedClose ==
    IF call.method = "getter" THEN LocatedMatch.index + LocatedMatch.length - 1
    ELSE RealClosingBracket(code, comments, LocatedMatch.index + LocatedMatch.length - 1)

\* C15: for the patterns of config.ts and for the accessor patterns, the
\* interval findExistingMethod returns reaches the close brace of the method
\* it located and holds nothing but white space after it: no later member
\* of the class and not the close brace of the class.
C15_IntervalEndsAtMethod ==
    (/\ CalledFindExistingMethod
     /\ ret.status = "ok"
     /\ LocatedHasClose)
    => /\ ret.interval.endIndex > LocatedClose
       /\ \A j \in (LocatedClose + 1)..(ret.interval.endIndex - 1) : whiteSpace(At(code, j))

(***************************************************************************)
(* A run of moveToClosingBracket, one iteration of its for loop at a time. *)
(* scan.i is the scan position at the head of the loop, scan.at the        *)
(* position the last iteration looked at (after its jump over a comment),  *)
(* scan.k the cursor in the comment list.                                  *)
(***************************************************************************)
MaxScanTokens == 5

\* moveToClosingBracket( code, index, comments ) is entered: the while loop
\* over the comments, let scope = 1, var i = index + 1.
StartScan ==
    /\ pc = "idle"
    /\ \E index \in OpenBrackets(code) :
          /\ call' = [NoCall EXCEPT !.op = "moveToClosingBracket", !.index = index,
                                    !.cs = comments]
          /\ scan' = [i |-> index + 1, k |-> skipCommentsBefore(comments, index, 0),
                      scope |-> 1, found |-> FALSE, at |-> index]
    /\ pc' = "scanning"
    /\ UNCHANGED <<code, comments, forest, ret, globalLastIndex, processor, command, settings>>

\* One iteration of the for loop.
ScanStep ==
    /\ pc = "scanning"
    /\ ~scan.found
    /\ scan.i < Len(code)
    /\ scan' = closingBracketStep(code, call.cs, scan)
    /\ UNCHANGED <<code, comments, forest, pc, call, ret, globalLastIndex, processor, command,
            settings>>

\* return i (the match) or return index (the end of the text was reached).
ScanReturn ==
    /\ pc = "scanning"
    /\ scan.found \/ scan.i >= Len(code)
    /\ ret' = Returned(IF scan.found THEN scan.at ELSE call.index)
    /\ scan' = NoScan
    /\ pc' = "returned"
    /\ UNCHANGED <<code, comments, forest, call, globalLastIndex, processor, command, settings>>

InitScan == InitText(TextsOf(BracketTokens, MaxScanTokens))
NextScan == FindComments \/ StartScan \/ ScanStep \/ ScanReturn \/ Return
SpecScan == InitScan /\ [][NextScan]_vars

\* C16: in every run of moveToClosingBracket on the comment list of the
\* text, no iteration moves the scan position back (a jump to the end of a
\* comment included) and none rewinds the cursor in the comment list.
C16_CursorsAdvance ==
    [][(pc = "scanning" /\ pc' = "scanning")
       => /\ scan'.at >= scan.i
          /\ scan'.i > scan.i
          /\ scan'.k >= scan.k]_vars

\* ---------------------------------------------------------------------
\* Strict nesting of the class forest
\* ---------------------------------------------------------------------

\* C17: in every forest returned by findClasses, the classInterval of each
\* inner class lies strictly within the bodyInterval of its outher class,
\* at every nesting depth: the body starts before the inner class starts
\* and the inner class ends before the body ends.
C17_ChildStrictlyInsideBody ==
    pc \in {"idle", "returned"}
    => \A b \in Nodes :
          Node(b).outherClass # NoClass
          => /\ Node(Node(b).outherClass).bodyInterval.startIndex
                    < Node(b).classInterval.startIndex
             /\ Node(b).classInterval.endIndex
                    < Node(Node(b).outherClass).bodyInterval.endIndex

\* ---------------------------------------------------------------------
\* JavaClass.add on class nodes built by JavaClass.of
\* ---------------------------------------------------------------------
MaxPosition == 4
MaxClasses == 3
MaxInnerClasses == 2

\* JavaClass.of( 'A', signatureInterval, bodyInterval, [] ) for a one-character
\* signature at signatureIndex and the body that follows it up to bodyEndIndex.
ClassShapes ==
    { JavaClassOf(<<"A">>, TextIntervalOf(signatureIndex, signatureIndex),
                  TextIntervalOf(signatureIndex + 1, bodyEndIndex), <<>>) :
        signatureIndex \in 0..(MaxPosition - 1), bodyEndIndex \in 1..MaxPosition }

\* The classes exist, none is linked to another.
InitAdd ==
    /\ code = <<>>
    /\ comments = <<>>
    /\ forest \in { [NoForest EXCEPT !.nodes = nodes] :
                      nodes \in { ns \in [1..MaxClasses -> ClassShapes] :
                                    \A n \in 1..MaxClasses :
                                       ns[n].bodyInterval # Thrown } }
    /\ pc = "idle"
    /\ call = NoCall
    /\ ret = NoRet
    /\ globalLastIndex = 0
    /\ scan = NoScan
    /\ processor = NoProcessor
    /\ command = NoCommand
    /\ settings = NoSettings

\* this.add( innerClass ) for two nodes of the arena; an error leaves the
\* nodes as the statements before the throw made them.
AddCall ==
    /\ pc = "idle"
    /\ \E this \in Nodes, innerClass \in Nodes :
          /\ Len(forest.nodes[this].innerClasses) < MaxInnerClasses
          /\ call' = [NoCall EXCEPT !.op = "add", !.node = this, !.index = innerClass]
          /\ LET outcome == add(forest.nodes, this, innerClass)
             IN  /\ forest' = [forest EXCEPT !.nodes = outcome.nodes]
                 /\ ret' = IF outcome.threw THEN Threw ELSE Returned(innerClass)
    /\ pc' = "returned"
    /\ UNCHANGED <<code, comments, globalLastIndex, scan, processor, command, settings>>

NextAdd == AddCall \/ Return
SpecAdd == InitAdd /\ [][NextAdd]_vars

\* The places of node n in the inner class lists of the arena nodes.
PlacesOf(nodes, n) ==
    { place \in (1..Len(nodes)) \X (1..MaxInnerClasses) :
        /\ place[2] <= Len(nodes[place[1]].innerClasses)
        /\ nodes[place[1]].innerClasses[place[2]] = n }

\* Every node is in at most one inner class list, at most once.
OwnedOnce(nodes) == \A n \in 1..Len(nodes) : Cardinality(PlacesOf(nodes, n)) <= 1

\* A node is in the list of x exactly when its parent link is x.
ListsMatchLinks(nodes) ==
    \A x \in 1..Len(nodes), n \in 1..Len(nodes) :
       (\E place \in PlacesOf(nodes, n) : place[1] = x) <=> (nodes[n].outherClass = x)

\* C18: after any sequence of JavaClass.add calls, successful or failing,
\* every node is in at most one inner class list, a node is in the list of
\* X exactly when its parent link is X, a parent link once set is never
\* changed, and a failing add leaves both nodes unchanged.
C18_AddKeepsTree ==
    [][(pc = "idle" /\ pc' = "returned" /\ call'.op = "add")
       => /\ OwnedOnce(forest'.nodes)
          /\ ListsMatchLinks(forest'.nodes)
          /\ \A n \in Nodes :
                forest.nodes[n].outherClass # NoClass
                => forest'.nodes[n].outherClass = forest.nodes[n].outherClass
          /\ (ret'.status = "throw")
             => /\ forest'.nodes[call'.node] = forest.nodes[call'.node]
                /\ forest'.nodes[call'.index] = forest.nodes[call'.index]]_vars

\* ---------------------------------------------------------------------
\* The JavaDoc in front of a located method
\* ---------------------------------------------------------------------
MaxDocTokens == 5

Tok_javaDoc == <<"/", "*", "*", " ", "*", "/">>

\* What stands in the body of a class: JavaDoc comments, line comments,
\* line ends, toString methods and close braces.
DocTokens == { Tok_javaDoc, <<"/", "/">>, <<"\n">>, Tok_toString, <<"}">> }

\* One class, closed by the last brace of the text.
InitDoc ==
    InitText({Tok_classA \o body \o <<"}">> : body \in TextsOf(DocTokens, MaxDocTokens)})
NextDoc == FindClasses \/ FindExistingMethod \/ Return
SpecDoc == InitDoc /\ [][NextDoc]_vars

\* The start of the match findExistingMethod located: the first one whose
\* enclosing class is the class of the call.
LocatedStart ==
    LET owned == {k \in 1..Len(MethodMatches) :
                    getEnclosingClass(forest.nodes, call.node, MethodMatches[k].index)
                        = call.node}
    IN  MethodMatches[CHOOSE k \in owned : \A h \in owned : k <= h].index

\* The comments of the class of the call that end last before index m.
LastCommentsBefore(m) ==
    LET cs == Node(call.node).comments
        ending == {n \in 1..Len(cs) : cs[n].interval.endIndex < m}
    IN  {n \in ending : \A h \in ending : cs[h].interval.endIndex <= cs[n].interval.endIndex}

\* Those of them that are JavaDoc comments with nothing but white space up
\* to index m.
JavaDocsBefore(m) ==
    LET cs == Node(call.node).comments
    IN  {n \in LastCommentsBefore(m) :
           /\ cs[n].type = javaDoc
           /\ \A j \in (cs[n].interval.endIndex + 1)..(m - 1) : whiteSpace(At(code, j))}

\* C19: the comment findExistingMethod accepts as the JavaDoc of the method
\* is the comment of the class that ends last before the start of the match;
\* it is accepted only if it is a JavaDoc comment with nothing but white
\* space up to the match, and then the interval starts at the white space
\* in front of that comment; otherwise the start of the interval is derived
\* from the start of the match alone.
C19_JavaDocBeforeMethod ==
    (CalledFindExistingMethod /\ ret.status = "ok")
    => LET cs == Node(call.node).comments
           docs == JavaDocsBefore(LocatedStart)
       IN  IF docs # {}
           THEN \E n \in docs :
                   ret.interval.startIndex = WhiteSpaceRunStart(cs[n].interval.startIndex)
           ELSE ret.interval.startIndex = WhiteSpaceRunStart(LocatedStart)

\* ---------------------------------------------------------------------
\* The order of the comment list
\* ---------------------------------------------------------------------

\* C20: for every text, findComments returns the comments in strictly
\* increasing order of their start index.
C20_CommentsOrderedByStart ==
    (pc # "text")
    => \A a \in 1..Len(comments), b \in 1..Len(comments) :
          a < b => comments[a].interval.startIndex < comments[b].interval.startIndex

\* A scanned text with a block comment and a line comment that starts
\* inside of it, and a third comment after them.
C20_Witness ==
    /\ pc = "idle"
    /\ Len(comments) >= 3
    /\ \E a \in 1..Len(comments), b \in 1..Len(comments) :
          /\ a < b
          /\ comments[a].type = multiLine
          /\ comments[b].type = singleLine
          /\ comments[b].interval.startIndex < comments[a].interval.endIndex

\* ---------------------------------------------------------------------
\* The comments findComments emits, marker by marker
\* ---------------------------------------------------------------------
MaxCommentChars == 6

\* Texts of slashes, stars, line ends and one other character.
CommentChars == { <<"/">>, <<"*">>, <<"\n">>, <<"a">> }

InitComments == InitText(TextsOf(CommentChars, MaxCommentChars))
SpecComments == InitComments /\ [][FindComments]_vars

\* The comments of the list that start at index i.
CommentsAt(i) == {n \in 1..Len(comments) : comments[n].interval.startIndex = i}

\* The line ends at or after index i, and the stars of the "*/" at or after it.
NewLinesFrom(i) == {j \in i..(Len(code) - 1) : At(code, j) = "\n"}
ClosingsFrom(i) == {j \in i..(Len(code) - 2) : At(code, j) = "*" /\ At(code, j + 1) = "/"}

\* The least member of a non-empty set of indexes.
First(indexes) == CHOOSE j \in indexes : \A h \in indexes : j <= h

\* C21: for every '/' at index i that another character follows: if it is
\* a '/', findComments emits a singleLine comment from i to the next line
\* end, or to the end of the text when no line end follows; if it is a '*',
\* it emits a comment from i, javaDoc when a second '*' follows and
\* multiLine otherwise, that ends at the '/' of the first "*/" after i; no
\* comment is emitted at any other index.
C21_CommentPerMarker ==
    (pc = "idle")
    => \A i \in 0..(Len(code) - 1) :
          LET marked == At(code, i) = "/" /\ i + 1 < Len(code)
              at == CommentsAt(i)
          IN  IF marked /\ At(code, i + 1) = "/"
              THEN /\ Cardinality(at) = 1
                   /\ \A n \in at :
                         /\ comments[n].type = singleLine
                         /\ comments[n].interval.endIndex =
                               IF NewLinesFrom(i + 1) # {} THEN First(NewLinesFrom(i + 1))
                               ELSE Len(code) - 1
              ELSE IF marked /\ At(code, i + 1) = "*"
              THEN /\ Cardinality(at) = 1
                   /\ \A n \in at :
                         /\ comments[n].type =
                               IF At(code, i + 2) = "*" THEN javaDoc ELSE multiLine
                         /\ ClosingsFrom(i + 1) # {}
                            => comments[n].interval.endIndex = First(ClosingsFrom(i + 1)) + 1
              ELSE at = {}

\* C22: a block comment opened with "/*" or "/**" that no "*/" ends before
\* the end of the text is emitted all the same, without an error, with the
\* index right after its opening '/' as its end, and the markers after it
\* are scanned too.
C22_UnterminatedComment ==
    (pc = "idle")
    => \A i \in 0..(Len(code) - 2) :
          (At(code, i) = "/" /\ At(code, i + 1) = "*" /\ ClosingsFrom(i + 1) = {})
          => /\ \E n \in CommentsAt(i) :
                   /\ comments[n].interval # Thrown
                   /\ comments[n].interval.endIndex = i + 1
             /\ \A j \in (i + 1)..(Len(code) - 2) :
                   (At(code, j) = "/" /\ At(code, j + 1) \in {"/", "*"})
                   => CommentsAt(j) # {}

\* A scanned text with a block comment that has no end, more text after its
\* opening, and a comment marker further on.
C22_Witness ==
    /\ pc = "idle"
    /\ \E i \in 0..(Len(code) - 2) :
          /\ At(code, i) = "/" /\ At(code, i + 1) = "*" /\ ClosingsFrom(i + 1) = {}
          /\ \E n \in CommentsAt(i) : comments[n].interval.endIndex < Len(code) - 1
          /\ \E j \in (i + 2)..(Len(code) - 2) :
                At(code, j) = "/" /\ At(code, j + 1) = "/" /\ CommentsAt(j) # {}

\* ---------------------------------------------------------------------
\* The white space after an index
\* ---------------------------------------------------------------------
MaxTrailingChars == 5

\* Texts of blanks, line ends and one other character.
TrailingChars == { <<" ">>, <<"\n">>, <<"a">> }

InitTrailing ==
    /\ code \in TextsOf(TrailingChars, MaxTrailingChars)
    /\ comments = <<>>
    /\ forest = NoForest
    /\ pc = "idle"
    /\ call = NoCall
    /\ ret = NoRet
    /\ globalLastIndex = 0
    /\ scan = NoScan
    /\ processor = NoProcessor
    /\ command = NoCommand
    /\ settings = NoSettings

\* includeTrailingWhitespaces( code, index ), for an index of the text or
\* the index right after it (the close brace may be the last character).
IncludeTrailingWhitespacesCall ==
    /\ pc = "idle"
    /\ \E index \in 0..Len(code) :
          /\ call' = [NoCall EXCEPT !.op = "includeTrailingWhitespaces", !.index = index]
          /\ ret' = Returned(includeTrailingWhitespaces(code, index))
    /\ pc' = "returned"
    /\ UNCHANGED <<code, comments, forest, globalLastIndex, scan, processor, command, settings>>

NextTrailing == IncludeTrailingWhitespacesCall \/ Return
SpecTrailing == InitTrailing /\ [][NextTrailing]_vars

\* The indexes at or after the index of the call that hold no white space.
InkFrom(index) == {j \in index..(Len(code) - 1) : ~whiteSpace(At(code, j))}

\* The greatest member of a non-empty set of indexes.
Last(indexes) == CHOOSE j \in indexes : \A h \in indexes : h <= j

\* C23 as first stated: includeTrailingWhitespaces(code, index) goes
\* forward from index over white space; when a character that is no white
\* space ends the run, it returns the index of the last line end of the run,
\* or index itself when the run holds no line end, and never the index of
\* that character or one past it; when only white space is left up to the
\* end of the text it returns the last index of the text; the result is
\* never below index.
C23_NeverAtInk ==
    (pc = "returned" /\ call.op = "includeTrailingWhitespaces")
    => LET index == call.index
           ink == InkFrom(index)
       IN  /\ ret.value >= index
           /\ (ink # {})
              => LET newLines == {j \in index..(First(ink) - 1) : At(code, j) = "\n"}
                 IN  /\ ret.value = IF newLines # {} THEN Last(newLines) ELSE index
                     /\ ret.value < First(ink)
           /\ (ink = {} /\ index < Len(code))
              => ret.value = Len(code) - 1

\* C23: includeTrailingWhitespaces(code, index) goes forward from index over
\* white space; when a character that is no white space ends the run, it
\* returns the index of the last line end of the run, or index itself when
\* the run holds no line end, and never an index past that character: it
\* returns the index of that character only when the character stands at
\* index itself and the run is empty; when only white space is left up to
\* the end of the text it returns the last index of the text; the result is
\* never below index.
C23_TrailingWhiteSpace ==
    (pc = "returned" /\ call.op = "includeTrailingWhitespaces")
    => LET index == call.index
           ink == InkFrom(index)
       IN  /\ ret.value >= index
           /\ (ink # {})
              => LET newLines == {j \in index..(First(ink) - 1) : At(code, j) = "\n"}
                 IN  /\ ret.value = IF newLines # {} THEN Last(newLines) ELSE index
                     /\ ret.value <= First(ink)
                     /\ (ret.value = First(ink)) => (First(ink) = index)
           /\ (ink = {} /\ index < Len(code))
              => ret.value = Len(code) - 1

\* A call on a run with a line end and then the indentation of the next
\* line: the result is the line end, before the indentation.
C23_Witness ==
    /\ pc = "returned"
    /\ call.op = "includeTrailingWhitespaces"
    /\ InkFrom(call.index) # {}
    /\ At(code, ret.value) = "\n"
    /\ call.index < ret.value
    /\ ret.value + 1 < First(InkFrom(call.index))

\* ---------------------------------------------------------------------
\* The scope of the classes of a forest
\* ---------------------------------------------------------------------
MaxScopeTokens == 6

\* Class headers, close braces and line ends.
ScopeTokens == { Tok_classA, <<"}">>, <<"\n">> }

\* javaClass.getScope() on a node of the forest.
GetScope ==
    /\ pc = "idle"
    /\ \E node \in Nodes :
          /\ call' = [NoCall EXCEPT !.op = "getScope", !.node = node]
          /\ ret' = Returned(getScope(forest.nodes, node))
    /\ pc' = "returned"
    /\ UNCHANGED <<code, comments, forest, globalLastIndex, scan, processor, command, settings>>

InitScope == InitText(TextsOf(ScopeTokens, MaxScopeTokens))
NextScope == FindClasses \/ GetScope \/ Return
SpecScope == InitScope /\ [][NextScope]_vars

\* How deep node n is nested, counted down the inner class lists.
RECURSIVE NestingDepth(_)
NestingDepth(n) ==
    LET holders == {a \in Nodes : n \in InnerClassesOf(a)}
    IN  IF holders = {} THEN 0 ELSE 1 + NestingDepth(CHOOSE a \in holders : TRUE)

\* C24: getScope() of a class is 1 + getScope() of its outher class, and 1
\* for a class without one: a top level class has scope 1 and a class
\* nested d levels deep has scope d + 1; the value never changes once the
\* forest is built.
C24_ScopeIsDepth ==
    /\ []((pc = "returned" /\ call.op = "getScope")
          => /\ ret.value = NestingDepth(call.node) + 1
             /\ ret.value = IF Node(call.node).outherClass = NoClass THEN 1
                            ELSE 1 + getScope(forest.nodes, Node(call.node).outherClass))
    /\ [][(pc # "text")
          => \A n \in Nodes :
                getScope(forest'.nodes, n) = getScope(forest.nodes, n)]_vars

\* getScope() returned 3 for a class in a class in a class.
C24_Witness ==
    /\ pc = "returned"
    /\ call.op = "getScope"
    /\ NestingDepth(call.node) = 2
    /\ ret.value = 3

(***************************************************************************)
(* JavaClassProcessor.  The processor holds one class node (the arena of   *)
(* forest and its place in it) and works on the document code with the     *)
(* cursor of the editor (cursorIndex, which the editor holds before a      *)
(* processor is built).  source is the text findPointedClass read when it  *)
(* built the node the processor holds; javaFileContent, code, accessors    *)
(* and method are the locals and the parameters of the generator that      *)
(* runs.  pc is the place of the processor: "text" before build is called, *)
(* then the await it stands at, "ready" with a processor built, "null"     *)
(* when build gave none, "done" when a generator returned and "failed"     *)
(* when a call raised an error.  A step runs from one await to the next.   *)
(***************************************************************************)
MaxProcessorTokens == 4

\* findPointedClass( editor ): the comments, the forest and the class the
\* cursor points to (NoClass for null).
findPointedClass(str, cursorIndex) ==
    LET parsed == { [comments |-> cs, forest |-> findClasses(str, cs)] :
                       cs \in {findComments(str)} }
    IN  CHOOSE pointed \in
           { [ comments |-> p.comments,
               forest |-> p.forest,
               threw |-> p.forest.threw,
               javaClass |-> IF p.forest.threw THEN NoClass
                             ELSE firstPointedClass(p.forest.nodes, p.forest.roots, 1,
                                                    cursorIndex) ] : p \in parsed } : TRUE

\* document.positionAt( index ) followed by document.offsetAt: an index
\* past the end of the text is the end of the text.
positionAt(str, index) == IF index > Len(str) THEN Len(str) ELSE IF index < 0 THEN 0 ELSE index

\* editBuilder.replace( interval.toRange( document ), text ): the range runs
\* from the start index up to, not including, the end index.
replaceRange(str, interval, text) ==
    LET start == positionAt(str, interval.startIndex)
        end == positionAt(str, interval.endIndex)
    IN  SubSeq(str, 1, start) \o text \o SubSeq(str, end + 1, Len(str))

\* The places the editor can leave the cursor at when the range of the
\* interval is replaced by a text of the given length: a cursor before the
\* range stays, one after it moves with the text, one on the range ends up
\* at the start or at the end of the new text.
cursorsAfterEdit(str, interval, length, cursorIndex) ==
    LET start == positionAt(str, interval.startIndex)
        end == positionAt(str, interval.endIndex)
    IN  IF cursorIndex < start THEN {cursorIndex}
        ELSE IF cursorIndex > end THEN {cursorIndex - (end - start) + length}
        ELSE {start, start + length}

\* Indentation.of( level ) with tabs and no tab size: step is one tab and
\* base is Math.max( 0, level ) of them.
IndentationOf(level) ==
    [step |-> <<"\t">>, base |-> [n \in 1..(IF level > 0 THEN level ELSE 0) |-> "\t"]]

\* Field.override
override(field) ==
    IF field.accessorImplementation = inAncestorClass THEN Word_Override ELSE <<>>

Word_return == <<"r", "e", "t", "u", "r", "n">>
Word_this == <<"t", "h", "i", "s">>

\* methodContent( indentation ) of a Getter, a Setter and a Wither.
methodContent(accessor, indentation) ==
    IF accessor.prefix = Word_get
    THEN Word_return \o <<" ">> \o Word_this \o <<".">> \o accessor.field.name \o <<";">>
    ELSE IF accessor.prefix = Word_set
    THEN Word_this \o <<".">> \o accessor.field.name \o <<" ", "=", " ">>
         \o accessor.field.name \o <<";">>
    ELSE Word_this \o <<".">> \o accessor.field.name \o <<" ", "=", " ">>
         \o accessor.field.name \o <<";", "\n">>
         \o indentation.base \o indentation.step
         \o Word_return \o <<" ">> \o Word_this \o <<";">>

\* Accessor.code( indentation )
accessorCode(accessor, indentation) ==
    LET base == indentation.base
        step == indentation.step
    IN  <<"\n">> \o base \o override(accessor.field) \o <<"\n">>
        \o base \o Word_public \o <<" ">> \o accessor.returnType \o <<" ">>
           \o accessor.name \o <<"(">> \o paramContent(accessor) \o <<")", "\n">>
        \o base \o <<"{", "\n">>
        \o base \o step \o methodContent(accessor, indentation) \o <<"\n">>
        \o base \o <<"}", "\n">>

\* updateJavaClass: the processor takes the class findPointedClass finds in
\* the document and keeps the one it has when none is found (found tells
\* which; an error message is shown when none is).
updateJavaClass(this, str, cursorIndex) ==
    CHOOSE updated \in
       { IF pointed.threw
         THEN [threw |-> TRUE, found |-> FALSE, processor |-> this,
               comments |-> comments, forest |-> forest]
         ELSE IF pointed.javaClass # NoClass
         THEN [threw |-> FALSE, found |-> TRUE,
               processor |-> [this EXCEPT !.javaClass = pointed.javaClass, !.source = str],
               comments |-> pointed.comments, forest |-> pointed.forest]
         ELSE [threw |-> FALSE, found |-> FALSE, processor |-> this,
               comments |-> comments, forest |-> forest] :
            pointed \in {findPointedClass(str, cursorIndex)} } : TRUE

\* getWhitespaceInterval
getWhitespaceInterval(javaFileContent, index) ==
    TextIntervalOf(includeLeadingWhitespaces(javaFileContent, index),
                   includeTrailingWhitespaces(javaFileContent, index))

(***************************************************************************)
(* JavaClassProcessor: the code of toString, hashCode and equals.          *)
(***************************************************************************)
\* group( array )
RECURSIVE groupsOfThree(_, _)
groupsOfThree(array, i) ==
    IF i >= Len(array) THEN <<>>
    ELSE <<slice(array, i, i + 3)>> \o groupsOfThree(array, i + 3)

group(array) ==
    IF Len(array) < 4 THEN <<array>>
    ELSE IF Len(array) = 4 THEN <<slice(array, 0, 2), slice(array, 2, 4)>>
    ELSE groupsOfThree(array, 0)

\* The for loop of printFieldGroup, from group[i] on (0-based).
RECURSIVE printFieldsFrom(_, _, _)
printFieldsFrom(fieldGroup, i, separator) ==
    IF i >= Len(fieldGroup) THEN <<>>
    ELSE separator \o fieldGroup[i + 1] \o printFieldsFrom(fieldGroup, i + 1, separator)

\* printFieldGroup( group, prefix, separator, suffix ); group[0] of an empty
\* group is undefined, which is printed as the word.
printFieldGroup(fieldGroup, prefix, separator, suffix) ==
    prefix
    \o (IF Len(fieldGroup) = 0 THEN <<"u", "n", "d", "e", "f", "i", "n", "e", "d">>
        ELSE fieldGroup[1])
    \o printFieldsFrom(fieldGroup, 1, separator) \o suffix

\* The lines the code of the three methods starts with, up to "return ".
methodHead(indentation, signature) ==
    LET base == indentation.base
        step == indentation.step
    IN  <<"\n">> \o base \o <<"\n">>
        \o base \o <<"/", "*", "*">> \o <<"\n">>
        \o base \o <<" ", "*", " ", "{", "@", "i", "n", "h", "e", "r", "i", "t", "D", "o", "c", "}",
                  "\n">>
        \o base \o <<" ", "*", "/">> \o <<"\n">>
        \o base \o Word_Override \o <<"\n">>
        \o base \o signature \o <<"\n">>
        \o base \o <<"{", "\n">>
        \o base \o <<"\n">>
        \o base \o step \o Word_return \o <<" ">>

\* The lines the code of the three methods ends with.
methodTail(indentation) ==
    LET base == indentation.base
    IN  <<"\n">> \o base \o <<"\n">> \o base \o <<"}", "\n">> \o base \o <<"\n">>

\* The for loops of insertOrReplaceToString over the field names and over
\* the groups, from the n-th on.
RECURSIVE printNamedFields(_, _, _)
printNamedFields(fieldNames, n, indentation) ==
    IF n > Len(fieldNames) THEN <<>>
    ELSE <<"\n">> \o indentation.base \o indentation.step \o indentation.step
         \o <<".", "p", "r", "i", "n", "t", "(", "\"">> \o fieldNames[n]
         \o <<"\"", ",", " ">> \o fieldNames[n] \o <<")">>
         \o printNamedFields(fieldNames, n + 1, indentation)

RECURSIVE printGroups(_, _, _)
printGroups(groups, n, indentation) ==
    IF n > Len(groups) THEN <<>>
    ELSE printFieldGroup(groups[n],
            <<"\n">> \o indentation.base \o indentation.step \o indentation.step
            \o <<".", "p", "r", "i", "n", "t", "(", " ">>, <<",", " ">>, <<" ", ")">>)
         \o printGroups(groups, n + 1, indentation)

\* The code insertOrReplaceToString builds.
toStringCode(fieldNames, printFieldNames, layoutType, indentation) ==
    \* public String toString() ... return ToString.of( this )
    methodHead(indentation,
       <<"p", "u", "b", "l", "i", "c", " ", "S", "t", "r", "i", "n", "g", " ",
         "t", "o", "S", "t", "r", "i", "n", "g", "(", ")">>)
    \o <<"T", "o", "S", "t", "r", "i", "n", "g", ".", "o", "f", "(", " ", "t", "h", "i", "s",
         " ", ")">>
    \o (IF Len(fieldNames) > 0
        THEN IF printFieldNames THEN printNamedFields(fieldNames, 1, indentation)
             ELSE printGroups(group(fieldNames), 1, indentation)
        ELSE <<>>)
    \o <<"\n">> \o indentation.base \o indentation.step \o indentation.step
    \o <<".">> \o layoutType \o <<";">>
    \o methodTail(indentation)

\* The for loop of insertOrReplaceHashCode over the groups after the first.
RECURSIVE printMoreGroups(_, _, _)
printMoreGroups(groups, n, indentation) ==
    IF n > Len(groups) THEN <<>>
    ELSE printFieldGroup(groups[n],
            <<",", "\n">> \o indentation.base \o indentation.step \o indentation.step,
            <<",", " ">>, <<>>)
         \o printMoreGroups(groups, n + 1, indentation)

\* The code insertOrReplaceHashCode builds.
hashCodeCode(fieldNames, indentation) ==
    \* public int hashCode() ... return super.hashCode(); or Hashcode.of(
    methodHead(indentation,
       <<"p", "u", "b", "l", "i", "c", " ", "i", "n", "t", " ",
         "h", "a", "s", "h", "C", "o", "d", "e", "(", ")">>)
    \o (IF Len(fieldNames) = 0
        THEN <<"s", "u", "p", "e", "r", ".", "h", "a", "s", "h", "C", "o", "d", "e", "(", ")",
               ";">>
        ELSE <<"H", "a", "s", "h", "c", "o", "d", "e", ".", "o", "f", "(">>
             \o (LET groups == group(fieldNames)
                 IN  IF Len(groups) = 1
                     THEN printFieldGroup(groups[1], <<" ">>, <<",", " ">>, <<" ", ")", ";">>)
                     ELSE printFieldGroup(groups[1],
                             <<"\n">> \o indentation.base \o indentation.step
                             \o indentation.step, <<",", " ">>, <<>>)
                          \o printMoreGroups(groups, 2, indentation)
                          \o <<"\n">> \o indentation.base \o indentation.step
                          \o <<")", ";">>))
    \o methodTail(indentation)

\* The for loop of insertOrReplaceEquals over the field names; an empty
\* name is skipped.
RECURSIVE printGetters(_, _, _)
printGetters(fieldNames, n, indentation) ==
    IF n > Len(fieldNames) THEN <<>>
    ELSE (IF fieldNames[n] # <<>>
          THEN <<",", "\n">> \o indentation.base \o indentation.step \o indentation.step
               \o <<"o", " ", "-", ">", " ", "o", ".">> \o fieldNames[n]
          ELSE <<>>)
         \o printGetters(fieldNames, n + 1, indentation)

\* The code insertOrReplaceEquals builds.
equalsCode(fieldNames, indentation) ==
    \* public boolean equals( Object other ) ...
    \* return Equals.ifSameClass( this, other
    methodHead(indentation,
       <<"p", "u", "b", "l", "i", "c", " ", "b", "o", "o", "l", "e", "a", "n", " ",
         "e", "q", "u", "a", "l", "s", "(", " ", "O", "b", "j", "e", "c", "t", " ",
         "o", "t", "h", "e", "r", " ", ")">>)
    \o <<"E", "q", "u", "a", "l", "s", ".", "i", "f", "S", "a", "m", "e", "C", "l", "a", "s",
         "s", "(", " ", "t", "h", "i", "s", ",", " ", "o", "t", "h", "e", "r">>
    \o (IF Len(fieldNames) = 0 THEN <<" ", ")", ";">>
        ELSE printGetters(fieldNames, 1, indentation)
             \o <<"\n">> \o indentation.base \o indentation.step \o <<")", ";">>)
    \o methodTail(indentation)

\* OBJECT_OVERRIDES.hashCode.method.regexp:
\* /\s*(@Override)?\s*public\s+int\s+hashCode\s*\(\s*\)\s*\{/g
hashCodeRegExp ==
    << Rep(WhiteSpaceChars, FALSE, 0), Opt(Word_Override), Rep(WhiteSpaceChars, FALSE, 0),
       Lit(Word_public), Rep(WhiteSpaceChars, FALSE, 1), Lit(<<"i", "n", "t">>),
       Rep(WhiteSpaceChars, FALSE, 1), Lit(<<"h", "a", "s", "h", "C", "o", "d", "e">>),
       Rep(WhiteSpaceChars, FALSE, 0),
       Lit(<<"(">>), Rep(WhiteSpaceChars, FALSE, 0), Lit(<<")">>),
       Rep(WhiteSpaceChars, FALSE, 0), Lit(<<"{">>) >>

\* OBJECT_OVERRIDES.equals.method.regexp:
\* /\s*(@Override)?\s*public\s+boolean\s+equals\s*\(\s*Object[^\)]*\)\s*\{/g
equalsRegExp ==
    << Rep(WhiteSpaceChars, FALSE, 0), Opt(Word_Override), Rep(WhiteSpaceChars, FALSE, 0),
       Lit(Word_public), Rep(WhiteSpaceChars, FALSE, 1),
       Lit(<<"b", "o", "o", "l", "e", "a", "n">>),
       Rep(WhiteSpaceChars, FALSE, 1), Lit(<<"e", "q", "u", "a", "l", "s">>),
       Rep(WhiteSpaceChars, FALSE, 0),
       Lit(<<"(">>), Rep(WhiteSpaceChars, FALSE, 0), Lit(<<"O", "b", "j", "e", "c", "t">>),
       Rep({")"}, TRUE, 0), Lit(<<")">>), Rep(WhiteSpaceChars, FALSE, 0), Lit(<<"{">>) >>

\* OBJECT_OVERRIDES[ method ].method.regexp
methodRegExpOf(method) ==
    IF method = "toString" THEN toStringRegExp
    ELSE IF method = "hashCode" THEN hashCodeRegExp
    ELSE equalsRegExp

\* The else branch of insertOrReplaceMethodInheritedByObjectClass up to its
\* await: the white space around the insert index of the cursor is replaced
\* by the code.
insertMethodAtCursor(this, nodes, str, text) ==
    CHOOSE started \in
       { IF insertInterval = Thrown
         THEN [pc |-> "failed", op |-> "getWhitespaceInterval", ret |-> Threw, text |-> str,
               cursors |-> {this.cursorIndex}, edited |-> FALSE, asked |-> FALSE]
         ELSE [pc |-> "methodInserted", op |-> "editor.edit", ret |-> NoRet,
               text |-> replaceRange(str, insertInterval, text),
               cursors |-> cursorsAfterEdit(str, insertInterval, Len(text), this.cursorIndex),
               edited |-> TRUE, asked |-> FALSE] :
            insertInterval \in
               {getWhitespaceInterval(str,
                   getInsertIndex(nodes[this.javaClass], str, this.cursorIndex))} } : TRUE

\* insertOrReplaceMethodInheritedByObjectClass( objectOverride, code ) up to
\* its first await: the place of the processor there, the last call and
\* what it handed back, the text of the document, the places the cursor can
\* be at, whether the document was edited and whether the user was asked.
insertOrReplaceMethodInheritedByObjectClass(this, nodes, str, method, text) ==
    CHOOSE started \in
       { IF methodInterval.status = "throw"
         THEN [pc |-> "failed", op |-> "findExistingMethod", ret |-> methodInterval,
               text |-> str, cursors |-> {this.cursorIndex},
               edited |-> FALSE, asked |-> FALSE]
         ELSE IF methodInterval.status = "ok"
         THEN [pc |-> "askingMethod", op |-> "findExistingMethod", ret |-> methodInterval,
               text |-> str, cursors |-> {this.cursorIndex},
               edited |-> FALSE, asked |-> TRUE]
         ELSE insertMethodAtCursor(this, nodes, str, text) :
            methodInterval \in
               {findExistingMethod(str, methodRegExpOf(method), nodes, this.javaClass)} } : TRUE

(***************************************************************************)
(* JavaClassProcessor: build.                                              *)
(***************************************************************************)
\* The paths of the files an editor shows.
JavaFilePaths ==
    { <<"/", "w", "/", "s", "r", "c", "/", "A", ".", "j", "a", "v", "a">>,
      <<"/", "w", "/", "s", "r", "c", "/", "A", ".", "t", "x", "t">>,
      <<"/", "w", "/", "s", "r", "c", "/", "A", ".", "t", "e", "s", "t", ".", "j", "a", "v", "a">>,
      <<"/", "w", "/", "s", "r", "c", "/", "A">> }

\* The folder of the workspace: none, the root of the file system, a
\* folder above the file.
ProjectRoots == { <<>>, <<"/">>, <<"/", "w">> }

\* The folders that hold a pom.xml: none, the folder of the workspace,
\* the folder of the file, the root of the file system.
PomFolders == { {}, {<<"/", "w">>}, {<<"/", "w", "/", "s", "r", "c">>}, {<<"/">>} }

\* What the file system and the workspace hold when the settings are
\* looked up: whether the output folder, the folder of the libraries and
\* the local Maven repository the settings name exist, the folder of the
\* workspace and the folders with a pom.xml.  The three folders vary in
\* one workspace, the workspace and the POM beside folders that exist.
FileSystems ==
    [outFolder : BOOLEAN, libFolder : BOOLEAN, localRepo : BOOLEAN,
     projectRoot : {<<"/", "w">>}, poms : {{<<"/", "w">>}}]
    \cup [outFolder : {TRUE}, libFolder : {TRUE}, localRepo : {TRUE},
          projectRoot : ProjectRoots, poms : PomFolders]

\* The Nerd4J settings of the workspace a command can be run with: none,
\* those of a plain Java project and those of a Maven project.
ProjectSettings ==
    { NoSettings,
      [NoSettings EXCEPT !.projectType = plainJava, !.javaOutFolder = "/old/out",
                         !.javaLibFolder = "/old/lib"],
      [NoSettings EXCEPT !.projectType = maven, !.mavenLocalRepo = "/old/m2"] }

\* The index of the last path separator of an absolute path.
lastSeparator(path) ==
    CHOOSE k \in 1..Len(path) :
       path[k] = "/" /\ \A h \in (k + 1)..Len(path) : path[h] # "/"

\* path.dirname( path ) of an absolute path: the root is its own parent.
dirname(path) ==
    IF lastSeparator(path) = 1 THEN <<"/">>
    ELSE SubSeq(path, 1, lastSeparator(path) - 1)

\* path.basename( path )
basename(path) == SubSeq(path, lastSeparator(path) + 1, Len(path))

\* str.startsWith( prefix )
startsWith(str, prefix) ==
    Len(prefix) <= Len(str) /\ SubSeq(str, 1, Len(prefix)) = prefix

\* isJavaSourceFile( javaFilePath ): the base name is split at its dots and
\* the second part is 'java'.
isJavaSourceFile(javaFilePath) ==
    LET fileName == basename(javaFilePath)
        dots == {i \in 1..Len(fileName) : fileName[i] = "."}
    IN  /\ dots # {}
        /\ LET first == CHOOSE i \in dots : \A h \in dots : i <= h
               after == {i \in dots : i > first}
               second == IF after = {} THEN Len(fileName) + 1
                         ELSE CHOOSE i \in after : \A h \in after : i <= h
           IN  SubSeq(fileName, first + 1, second - 1) = <<"j", "a", "v", "a">>

\* The do-while loop of getPomPath from parentPath: the path of the POM
\* of the first folder that holds one; null (no path) once the parent of
\* the folder does not start with the folder of the workspace.  The loop
\* never ends when it comes to a folder without a POM that is its own
\* parent and starts with the folder of the workspace (the root of the
\* file system, as the folder of the workspace): returns is FALSE.
RECURSIVE getPomPathFrom(_, _, _)
getPomPathFrom(parentPath, projectRoot, poms) ==
    IF parentPath \in poms
    THEN [returns |-> TRUE,
          pomPath |-> IF parentPath = <<"/">> THEN <<"/", "p", "o", "m", ".", "x", "m", "l">>
                      ELSE parentPath \o <<"/", "p", "o", "m", ".", "x", "m", "l">>]
    ELSE IF ~(dirname(parentPath) # <<>> /\ startsWith(dirname(parentPath), projectRoot))
    THEN [returns |-> TRUE, pomPath |-> <<>>]
    ELSE IF dirname(parentPath) = parentPath
    THEN [returns |-> FALSE, pomPath |-> <<>>]
    ELSE getPomPathFrom(dirname(parentPath), projectRoot, poms)

\* getPomPath( javaFilePath ): null without a folder of the workspace;
\* otherwise the search upwards from the folder of the file.
getPomPath(javaFilePath, projectRoot, poms) ==
    IF projectRoot = <<>>
    THEN [returns |-> TRUE, pomPath |-> <<>>]
    ELSE getPomPathFrom(dirname(javaFilePath), projectRoot, poms)

\* maven.isMavenProject()
isMavenProject(config) == config.projectType = maven

\* plain.getNerd4JSetting( key, folder ): the path of the setting when it is
\* set and exists; otherwise an error message and null (no path).
getNerd4JSetting(path, exists) ==
    IF path # "" /\ exists
    THEN [path |-> path, message |-> "none"]
    ELSE [path |-> "", message |-> "error"]

\* plain.getJvmSettings(): the output folder, then the folder of the
\* libraries; null after the error message of the first that is missing.
plainGetJvmSettings(config, files) ==
    IF getNerd4JSetting(config.javaOutFolder, files.outFolder).path = ""
    THEN [pc |-> "noJvmSettings", message |-> "error"]
    ELSE IF getNerd4JSetting(config.javaLibFolder, files.libFolder).path = ""
    THEN [pc |-> "noJvmSettings", message |-> "error"]
    ELSE [pc |-> "jvmSettings", message |-> "none"]

\* maven.getJvmSettings( javaFilePath ) up to its await: null after an
\* error message without a POM, without a configured local repository and
\* when the configured repository does not exist; otherwise the POM is
\* read and given to xml2js.parseStringPromise.  When getPomPath never
\* returns, the call never does.
mavenGetJvmSettings(javaFilePath, config, files) ==
    IF ~getPomPath(javaFilePath, files.projectRoot, files.poms).returns
    THEN [pc |-> "neverReturns", message |-> "none"]
    ELSE IF getPomPath(javaFilePath, files.projectRoot, files.poms).pomPath = <<>>
    THEN [pc |-> "noJvmSettings", message |-> "error"]
    ELSE IF config.mavenLocalRepo = ""
    THEN [pc |-> "noJvmSettings", message |-> "error"]
    ELSE IF ~files.localRepo
    THEN [pc |-> "noJvmSettings", message |-> "error"]
    ELSE [pc |-> "parsePom", message |-> "none"]

\* jvm.getJvmSettings( javaFilePath ) up to its await.
getJvmSettings(javaFilePath, config, files) ==
    IF ~isJavaSourceFile(javaFilePath)
    THEN [pc |-> "noJvmSettings", message |-> "error"]
    ELSE IF isMavenProject(config)
    THEN mavenGetJvmSettings(javaFilePath, config, files)
    ELSE plainGetJvmSettings(config, files)

\* JavaClassProcessor.build() up to its await: without an active editor an
\* error is shown and there is no processor; otherwise jvm.getJvmSettings
\* is called for the file of the editor and runs up to its own await,
\* having shown the error message when it gives null.  Where build waits
\* and the message shown on the way; a call of jvm.getJvmSettings that
\* never returns leaves build, and the command that called it, in that
\* call for ever (pc = "neverReturns").
build(activeEditor, javaFilePath, config, files) ==
    IF ~activeEditor
    THEN [pc |-> "null", message |-> "error"]
    ELSE getJvmSettings(javaFilePath, config, files)

StartBuild ==
    /\ pc = "text"
    /\ \E activeEditor \in BOOLEAN, javaFilePath \in JavaFilePaths, files \in FileSystems :
       \E started \in {build(activeEditor, javaFilePath, settings, files)} :
          /\ pc' = started.pc
          /\ command' = IF started.message = "none" THEN command
                        ELSE [command EXCEPT !.message = started.message]
    /\ UNCHANGED <<code, comments, forest, call, ret, globalLastIndex, scan, processor, settings>>

\* maven.getJvmSettings after await xml2js.parseStringPromise: a POM that
\* is not well formed rejects the promise, and with it build; of a parsed
\* POM parseOutFolder always gives an output folder (target/classes next
\* to the POM when the POM names none), so that the settings are returned.
ParsePom ==
    /\ pc = "parsePom"
    /\ \E wellFormed \in BOOLEAN :
          pc' = IF wellFormed THEN "jvmSettings" ELSE "failed"
    /\ UNCHANGED <<code, comments, forest, call, ret, globalLastIndex, scan, processor,
            command, settings>>

\* JavaClassProcessor.build() after await jvm.getJvmSettings: no processor
\* without JVM settings; no processor and an error message when the cursor
\* points to no class and when the class has no compiled version.
BuildProcessor ==
    /\ pc \in {"jvmSettings", "noJvmSettings"}
    /\ \E compiled \in BOOLEAN :
          IF pc = "noJvmSettings"
          THEN /\ pc' = "null"
               /\ UNCHANGED <<comments, forest, processor, command>>
          ELSE \E pointed \in {findPointedClass(code, processor.cursorIndex)} :
                  IF pointed.threw
                  THEN /\ pc' = "failed"
                       /\ UNCHANGED <<comments, forest, processor, command>>
                  ELSE /\ comments' = pointed.comments
                       /\ forest' = pointed.forest
                       /\ IF pointed.javaClass = NoClass \/ ~compiled
                          THEN /\ pc' = "null"
                               /\ command' = [command EXCEPT !.message = "error"]
                               /\ UNCHANGED processor
                          ELSE /\ pc' = "ready"
                               /\ processor' =
                                     [processor EXCEPT
                                        !.javaClass = pointed.javaClass,
                                        !.source = code,
                                        !.indentation =
                                           IndentationOf(getScope(pointed.forest.nodes,
                                                                  pointed.javaClass))]
                               /\ UNCHANGED command
    /\ UNCHANGED <<code, call, ret, globalLastIndex, scan, settings>>

(***************************************************************************)
(* JavaClassProcessor: inseertOrReplaceAccessors.                          *)
(***************************************************************************)
\* inseertOrReplaceAccessors( accessorMap ) for the getter of one field, up
\* to its loop: the text of the document is read.
StartAccessors ==
    /\ pc = "ready"
    /\ processor' = [processor EXCEPT !.javaFileContent = code,
                                      !.accessors = <<GetterOfF>>,
                                      !.code = <<>>]
    /\ pc' = "accessors"
    /\ UNCHANGED <<code, comments, forest, call, ret, globalLastIndex, scan, command, settings>>

\* One turn of the loop over the accessors: findExistingMethod for the class
\* of the processor; a method that exists is put to the user, the code of
\* one that does not is collected.
QueryAccessor ==
    /\ pc = "accessors"
    /\ processor.accessors # <<>>
    /\ \E accessor \in {Head(processor.accessors)} :
       \E methodInterval \in {findExistingMethod(processor.javaFileContent,
                                regexPattern(accessor), forest.nodes, processor.javaClass)} :
           /\ call' = [NoCall EXCEPT !.op = "findExistingMethod",
                                     !.node = processor.javaClass,
                                     !.method = IF accessor.prefix = Word_get THEN "getter"
                                                ELSE IF accessor.prefix = Word_set
                                                THEN "setter" ELSE "wither"]
           /\ ret' = methodInterval
           /\ IF methodInterval.status = "throw"
              THEN pc' = "failed" /\ UNCHANGED <<processor, command>>
              ELSE IF methodInterval.status = "null"
              THEN /\ pc' = "accessors"
                   /\ processor' =
                         [processor EXCEPT
                            !.code = @ \o accessorCode(accessor, processor.indentation),
                            !.accessors = Tail(@)]
                   /\ UNCHANGED command
              ELSE /\ pc' = "asking"
                   /\ command' = [command EXCEPT !.message = "information"]
                   /\ UNCHANGED processor
    /\ UNCHANGED <<code, comments, forest, globalLastIndex, scan, settings>>

\* The user answers "Regenerate" or "Cancel", or closes the message.  On
\* "Regenerate" the range of the method is deleted, and the generator
\* awaits the edit; otherwise the loop goes on.
AnswerRegenerate ==
    /\ pc = "asking"
    /\ \E answer \in {"Regenerate", "Cancel", Undefined} :
          IF answer # "Regenerate"
          THEN /\ processor' = [processor EXCEPT !.accessors = Tail(@)]
               /\ pc' = "accessors"
               /\ UNCHANGED <<code, call, ret, command>>
          ELSE \E cursorIndex \in cursorsAfterEdit(code, ret.interval, 0,
                                                   processor.cursorIndex) :
                  /\ code' = replaceRange(code, ret.interval, <<>>)
                  /\ processor' = [processor EXCEPT !.cursorIndex = cursorIndex]
                  /\ pc' = "deleted"
                  /\ call' = [NoCall EXCEPT !.op = "editor.edit"]
                  /\ ret' = NoRet
                  /\ command' = [command EXCEPT !.edited = TRUE]
    /\ UNCHANGED <<comments, forest, globalLastIndex, scan, settings>>

\* After the edit that deleted the method: updateJavaClass runs, the code
\* of the accessor is collected, updateJavaClass runs again (on the same
\* document and cursor, with the same outcome) and the text is read again.
UpdateDeleted ==
    /\ pc = "deleted"
    /\ \E updated \in {updateJavaClass(processor, code, processor.cursorIndex)} :
          /\ comments' = updated.comments
          /\ forest' = updated.forest
          /\ IF updated.threw
             THEN pc' = "failed" /\ UNCHANGED <<processor, command>>
             ELSE /\ pc' = "accessors"
                  /\ processor' =
                        [updated.processor EXCEPT
                           !.code = @ \o accessorCode(Head(processor.accessors),
                                                      processor.indentation),
                           !.javaFileContent = code,
                           !.accessors = Tail(@)]
                  /\ command' = IF updated.found THEN command
                                ELSE [command EXCEPT !.message = "error"]
    /\ UNCHANGED <<code, call, ret, globalLastIndex, scan, settings>>

\* After the loop: nothing to insert, or getInsertIndex for the class of the
\* processor at the cursor.
QueryInsert ==
    /\ pc = "accessors"
    /\ processor.accessors = <<>>
    /\ IF processor.code = <<>>
       THEN /\ pc' = "done"
            /\ UNCHANGED <<call, ret>>
       ELSE /\ call' = [NoCall EXCEPT !.op = "getInsertIndex",
                                      !.node = processor.javaClass,
                                      !.index = processor.cursorIndex]
            /\ ret' = Returned(getInsertIndex(forest.nodes[processor.javaClass],
                                  processor.javaFileContent, processor.cursorIndex))
            /\ pc' = "inserting"
    /\ UNCHANGED <<code, comments, forest, globalLastIndex, scan, processor, command, settings>>

\* The white space around the insert index is replaced by the collected
\* code, and the generator awaits the edit.
ApplyInsert ==
    /\ pc = "inserting"
    /\ \E insertInterval \in {getWhitespaceInterval(processor.javaFileContent, ret.value)} :
           IF insertInterval = Thrown
           THEN /\ pc' = "failed"
                /\ UNCHANGED <<code, processor, call, ret, command>>
           ELSE \E cursorIndex \in cursorsAfterEdit(code, insertInterval,
                                      Len(processor.code), processor.cursorIndex) :
                   /\ code' = replaceRange(code, insertInterval, processor.code)
                   /\ processor' = [processor EXCEPT !.cursorIndex = cursorIndex]
                   /\ pc' = "inserted"
                   /\ call' = [NoCall EXCEPT !.op = "editor.edit"]
                   /\ ret' = NoRet
                   /\ command' = [command EXCEPT !.edited = TRUE]
    /\ UNCHANGED <<comments, forest, globalLastIndex, scan, settings>>

\* After the edit that inserted the code: updateJavaClass runs and the
\* generator returns.
UpdateInserted ==
    /\ pc = "inserted"
    /\ \E updated \in {updateJavaClass(processor, code, processor.cursorIndex)} :
          /\ comments' = updated.comments
          /\ forest' = updated.forest
          /\ processor' = updated.processor
          /\ pc' = IF updated.threw THEN "failed" ELSE "done"
          /\ command' = IF updated.threw \/ updated.found THEN command
                        ELSE [command EXCEPT !.message = "error"]
    /\ UNCHANGED <<code, call, ret, globalLastIndex, scan, settings>>

(***************************************************************************)
(* JavaClassProcessor: insertOrReplaceMethodInheritedByObjectClass after   *)
(* its first await, and fixImport.                                         *)
(***************************************************************************)
\* The user answers "Regenerate" or "Cancel", or closes the message.  On
\* "Regenerate" the range of the method is replaced by the code, and the
\* generator awaits the edit; otherwise it goes on to fixImport.
AnswerMethod ==
    /\ pc = "askingMethod"
    /\ \E answer \in {"Regenerate", "Cancel", Undefined} :
          IF answer # "Regenerate"
          THEN /\ pc' = "import"
               /\ UNCHANGED <<code, processor, call, ret, command>>
          ELSE \E cursorIndex \in cursorsAfterEdit(code, ret.interval, Len(processor.code),
                                                   processor.cursorIndex) :
                  /\ code' = replaceRange(code, ret.interval, processor.code)
                  /\ processor' = [processor EXCEPT !.cursorIndex = cursorIndex]
                  /\ pc' = "regenerated"
                  /\ call' = [NoCall EXCEPT !.op = "editor.edit"]
                  /\ ret' = NoRet
                  /\ command' = [command EXCEPT !.edited = TRUE]
    /\ UNCHANGED <<comments, forest, globalLastIndex, scan, settings>>

\* After the edit that replaced the method: updateJavaClass runs, the user
\* is told that the method was regenerated, and fixImport is next.
UpdateRegenerated ==
    /\ pc = "regenerated"
    /\ \E updated \in {updateJavaClass(processor, code, processor.cursorIndex)} :
          /\ comments' = updated.comments
          /\ forest' = updated.forest
          /\ processor' = updated.processor
          /\ pc' = IF updated.threw THEN "failed" ELSE "import"
          /\ command' = IF updated.threw THEN command
                        ELSE [command EXCEPT !.message = "information"]
    /\ UNCHANGED <<code, call, ret, globalLastIndex, scan, settings>>

\* After the edit that inserted the method: updateJavaClass runs, and
\* fixImport is next.
UpdateMethodInserted ==
    /\ pc = "methodInserted"
    /\ \E updated \in {updateJavaClass(processor, code, processor.cursorIndex)} :
          /\ comments' = updated.comments
          /\ forest' = updated.forest
          /\ processor' = updated.processor
          /\ pc' = IF updated.threw THEN "failed" ELSE "import"
          /\ command' = IF updated.threw \/ updated.found THEN command
                        ELSE [command EXCEPT !.message = "error"]
    /\ UNCHANGED <<code, call, ret, globalLastIndex, scan, settings>>

\* fixImport( importRegExp, importCode ) up to its await: the two patterns
\* are looked for (GLOBAL_IMPORT_REGEXP from its lastIndex on, which moves)
\* and, when neither is found, the import is inserted at the start of the
\* second line and fixImport awaits the edit.
FixImport ==
    /\ pc = "import"
    /\ \E fixed \in {fixImport(code, importNameOf(processor.method), globalLastIndex)} :
          /\ call' = [NoCall EXCEPT !.op = "fixImport", !.method = processor.method]
          /\ ret' = Returned(fixed.inserted)
          /\ globalLastIndex' = fixed.lastIndex
          /\ code' = fixed.text
          /\ IF fixed.inserted
             THEN \E cursorIndex \in
                     cursorsAfterEdit(code,
                        TextIntervalOf(secondLineFrom(code, 0), secondLineFrom(code, 0)),
                        Len(fixed.text) - Len(code), processor.cursorIndex) :
                     /\ processor' = [processor EXCEPT !.cursorIndex = cursorIndex]
                     /\ pc' = "imported"
                     /\ command' = [command EXCEPT !.edited = TRUE]
             ELSE /\ pc' = "done"
                  /\ UNCHANGED <<processor, command>>
    /\ UNCHANGED <<comments, forest, scan, settings>>

\* After the edit that inserted the import: updateJavaClass runs, and
\* fixImport and its caller return.
UpdateImported ==
    /\ pc = "imported"
    /\ \E updated \in {updateJavaClass(processor, code, processor.cursorIndex)} :
          /\ comments' = updated.comments
          /\ forest' = updated.forest
          /\ processor' = updated.processor
          /\ pc' = IF updated.threw THEN "failed" ELSE "done"
          /\ command' = IF updated.threw \/ updated.found THEN command
                        ELSE [command EXCEPT !.message = "error"]
    /\ UNCHANGED <<code, call, ret, globalLastIndex, scan, settings>>

(***************************************************************************)
(* The specification of build and inseertOrReplaceAccessors.               *)
(***************************************************************************)
\* One class with getters up to their open brace, close braces, line ends
\* and line comments in its body, closed by the last brace of the text.
ProcessorTokens == { Tok_getF, <<"}">>, <<"\n">>, <<"/", "/">> }

\* An editor shows the class, with the cursor anywhere in the text.
InitProcessor ==
    /\ code \in {Tok_classA \o body \o <<"}">> :
                   body \in TextsOf(ProcessorTokens, MaxProcessorTokens)}
    /\ comments = <<>>
    /\ forest = NoForest
    /\ pc = "text"
    /\ call = NoCall
    /\ ret = NoRet
    /\ globalLastIndex = 0
    /\ scan = NoScan
    /\ processor \in {[NoProcessor EXCEPT !.cursorIndex = cursorIndex] :
                        cursorIndex \in 0..Len(code)}
    /\ command = NoCommand
    /\ settings \in ProjectSettings
NextProcessor ==
    \/ StartBuild
    \/ ParsePom
    \/ BuildProcessor
    \/ StartAccessors
    \/ QueryAccessor
    \/ AnswerRegenerate
    \/ UpdateDeleted
    \/ QueryInsert
    \/ ApplyInsert
    \/ UpdateInserted
SpecProcessor == InitProcessor /\ [][NextProcessor]_vars

\* C25: after every edit the processor applies to the document, the class
\* node it holds is rebuilt from the text after the edit before
\* findExistingMethod or getInsertIndex use it again: no node parsed from
\* an older text is queried together with a newer text.
C25_NodeOfQueriedText ==
    (/\ call.op \in {"findExistingMethod", "getInsertIndex"}
     /\ processor.javaClass # NoClass)
    => processor.source = processor.javaFileContent

(***************************************************************************)
(* The specification of fixImport.                                         *)
(***************************************************************************)
\* An editor shows a document, with the cursor at its start or on the open
\* brace of its class.
InitImport ==
    /\ code \in Documents
    /\ comments = <<>>
    /\ forest = NoForest
    /\ pc = "text"
    /\ call = NoCall
    /\ ret = NoRet
    /\ globalLastIndex = 0
    /\ scan = NoScan
    /\ processor \in {[NoProcessor EXCEPT !.cursorIndex = cursorIndex] :
                        cursorIndex \in {0, Len(code) - 3}}
    /\ command = NoCommand
    /\ settings \in ProjectSettings

\* insertOrReplaceMethodInheritedByObjectClass comes to its last statement,
\* await this.fixImport( ... ), for one of the methods.
CallFixImport ==
    /\ pc = "ready"
    /\ \E method \in ObjectMethods :
          processor' = [processor EXCEPT !.method = method]
    /\ pc' = "import"
    /\ UNCHANGED <<code, comments, forest, call, ret, globalLastIndex, scan, command, settings>>

\* The caller of fixImport goes on; the next command can be run.
ReturnImport ==
    /\ pc = "done"
    /\ pc' = "ready"
    /\ call' = NoCall
    /\ ret' = NoRet
    /\ UNCHANGED <<code, comments, forest, globalLastIndex, scan, processor, command, settings>>

NextImport ==
    \/ StartBuild
    \/ ParsePom
    \/ BuildProcessor
    \/ CallFixImport
    \/ FixImport
    \/ UpdateImported
    \/ ReturnImport
SpecImport == InitImport /\ [][NextImport]_vars

\* C12: in every run of fixImport, on the first command and on every later
\* one, the import of the method is inserted exactly when the text holds
\* neither that import nor the wildcard import org.nerd4j.utils.lang.*.
C12_ImportInsertedWhenAbsent ==
    [][(pc = "import" /\ call'.op = "fixImport")
       => ((ret'.value = TRUE)
           <=> ~(\/ ImportPresent(code, importNameOf(call'.method))
                 \/ ImportPresent(code, <<"*">>)))]_vars

(***************************************************************************)
(* commands: the generate commands and getFields.  A step of a command     *)
(* runs from one await to the next; command.step is the await the command  *)
(* stands at ("build", "awaitFields", the menus, "awaitEquals" and         *)
(* "awaitInsert" for the generators of the processor), "returned" when it  *)
(* returned and "rejected" when a call raised an error.                    *)
(***************************************************************************)
MaxFields == 2

GenerateCommands ==
    {"generateToStringMethod", "generateHashCodeAndEqualsMethods", "generateAccessorMethods"}

\* The accessor types the user can tick, in the order of the menu.
AccessorSelections ==
    { <<>>, <<"get">>, <<"set">>, <<"with">>, <<"get", "set">>, <<"get", "with">>,
      <<"set", "with">>, <<"get", "set", "with">> }

\* The layouts of the menu of generateToStringMethod: likeIntellij(),
\* likeEclipse(), likeFunction(), likeTuple() and using( "{", ":", ",", "}" ).
Layouts ==
    { <<"l", "i", "k", "e", "I", "n", "t", "e", "l", "l", "i", "j", "(", ")">>,
      <<"l", "i", "k", "e", "E", "c", "l", "i", "p", "s", "e", "(", ")">>,
      <<"l", "i", "k", "e", "F", "u", "n", "c", "t", "i", "o", "n", "(", ")">>,
      <<"l", "i", "k", "e", "T", "u", "p", "l", "e", "(", ")">>,
      <<"u", "s", "i", "n", "g", "(", " ", "\"", "{", "\"", ",", " ", "\"", ":", "\"", ",",
        " ", "\"", ",", "\"", ",", " ", "\"", "}", "\"", " ", ")">> }

\* What the class analyzer prints for a class with n fields: one line
\* "type name flag" for each, the first field not implemented (0), the
\* others implemented by an ancestor (2).
RECURSIVE analysisOutput(_)
analysisOutput(n) ==
    IF n = 0 THEN <<>>
    ELSE analysisOutput(n - 1)
         \o <<"T", " ", "f">> \o [i \in 1..(n - 1) |-> "m"]
         \o <<" ", IF n = 1 THEN "0" ELSE "2", "\n">>

\* The fields of the output in getFields:
\* stdout.trim().split( "\n" ).filter( ... length > 0 ).map( Field.of )
RECURSIVE fieldsOfLines(_, _, _)
fieldsOfLines(className, outputList, n) ==
    IF n > Len(outputList) THEN <<>>
    ELSE (IF Len(outputList[n]) > 0 THEN <<FieldOf(className, outputList[n])>> ELSE <<>>)
         \o fieldsOfLines(className, outputList, n + 1)

fieldsOf(className, stdout) == fieldsOfLines(className, split(trim(stdout), "\n"), 1)

\* toQuickPickItem( field ).label
labelOf(field) == field.type \o <<" ">> \o field.name

\* The items the user ticked in a menu with canPickMany, in the order of
\* the menu: those at the chosen places.
RECURSIVE pickFrom(_, _, _)
pickFrom(options, chosen, n) ==
    IF n > Len(options) THEN <<>>
    ELSE (IF n \in chosen THEN <<options[n]>> ELSE <<>>)
         \o pickFrom(options, chosen, n + 1)

\* selectedFields.map( field => field.label.split( ' ' )[1] )
RECURSIVE fieldNamesOf(_, _)
fieldNamesOf(selectedFields, n) ==
    IF n > Len(selectedFields) THEN <<>>
    ELSE <<ValueAt(split(labelOf(selectedFields[n]), " "), 1)>>
         \o fieldNamesOf(selectedFields, n + 1)

\* fieldMap.get( item.label ): the last field of that label.
fieldOfLabel(fields, label) ==
    fields[CHOOSE n \in 1..Len(fields) :
              /\ labelOf(fields[n]) = label
              /\ \A m \in (n + 1)..Len(fields) : labelOf(fields[m]) # label]

\* createAccessorParams.map for the prefix of the accessor type.
accessorOfPrefix(prefix, field) ==
    IF prefix = "get" THEN GetterOf(field)
    ELSE IF prefix = "set" THEN SetterOf(field)
    ELSE WitherOf(field)

\* accessorMap.get( name ) / accessorMap.set( name, accessors ) and
\* accessors.push( accessor ): the map is a sequence of its entries in the
\* order they were set.
pushAccessor(accessorMap, accessor) ==
    IF \E n \in 1..Len(accessorMap) : accessorMap[n].key = accessor.field.name
    THEN [n \in 1..Len(accessorMap) |->
            IF accessorMap[n].key = accessor.field.name
            THEN [accessorMap[n] EXCEPT !.values = Append(@, accessor)]
            ELSE accessorMap[n]]
    ELSE Append(accessorMap, [key |-> accessor.field.name, values |-> <<accessor>>])

\* The for loop over selectedAccessors of generateAccessorMethods.
RECURSIVE pushAccessors(_, _, _, _)
pushAccessors(accessorMap, prefix, selectedFields, n) ==
    IF n > Len(selectedFields) THEN accessorMap
    ELSE pushAccessors(pushAccessor(accessorMap, accessorOfPrefix(prefix, selectedFields[n])),
                       prefix, selectedFields, n + 1)

\* The accessors of accessorMap.values() in the order the two for loops of
\* inseertOrReplaceAccessors go through them.
RECURSIVE accessorsOf(_, _)
accessorsOf(accessorMap, n) ==
    IF n > Len(accessorMap) THEN <<>>
    ELSE accessorMap[n].values \o accessorsOf(accessorMap, n + 1)

\* A generate command starts and calls JavaClassProcessor.build(), which
\* runs up to its await: without an active editor, and when
\* jvm.getJvmSettings gives null, the error message is shown by then.
StartGenerate ==
    /\ command.step = "none"
    /\ pc = "text"
    /\ \E name \in GenerateCommands, activeEditor \in BOOLEAN,
          javaFilePath \in JavaFilePaths, files \in FileSystems :
       \E started \in {build(activeEditor, javaFilePath, settings, files)} :
          /\ command' = [NoCommand EXCEPT !.name = name, !.step = "build",
                                          !.message = started.message]
          /\ pc' = started.pc
    /\ UNCHANGED <<code, comments, forest, call, ret, globalLastIndex, scan, processor, settings>>

\* The command goes on after await JavaClassProcessor.build(): without a
\* processor it returns.
AwaitBuild ==
    /\ command.step = "build"
    /\ pc \in {"ready", "null", "failed"}
    /\ command' = [command EXCEPT
                     !.step = IF pc = "failed" THEN "rejected"
                              ELSE IF pc = "null" THEN "returned"
                              ELSE IF command.name = "generateAccessorMethods"
                              THEN "selectTypes"
                              ELSE "getFields"]
    /\ UNCHANGED <<code, comments, forest, pc, call, ret, globalLastIndex, scan, processor,
            settings>>

\* generateAccessorMethods asks for the accessor types: no answer ends the
\* command.
SelectAccessorTypes ==
    /\ command.step = "selectTypes"
    /\ \/ command' = [command EXCEPT !.step = "returned"]
       \/ \E selection \in AccessorSelections :
             command' = [command EXCEPT !.step = "nextType", !.selection = selection]
    /\ UNCHANGED <<code, comments, forest, pc, call, ret, globalLastIndex, scan, processor,
            settings>>

\* The loop of generateAccessorMethods over the selected types: getFields
\* for the next one, inseertOrReplaceAccessors after the last.
NextAccessorType ==
    /\ command.step = "nextType"
    /\ command' = [command EXCEPT
                     !.step = IF command.selection = <<>> THEN "insert" ELSE "getFields"]
    /\ UNCHANGED <<code, comments, forest, pc, call, ret, globalLastIndex, scan, processor,
            settings>>

\* getFields up to the await of its executor: the promise is made and
\* handed to the caller, which awaits it, while the executor waits for
\* jvm.getClassAnalyzerJavaCommand.
GetFields ==
    /\ command.step = "getFields"
    /\ command' = [command EXCEPT !.step = "awaitFields", !.fields = "pending"]
    /\ UNCHANGED <<code, comments, forest, pc, call, ret, globalLastIndex, scan, processor,
            settings>>

\* The executor of getFields after await jvm.getClassAnalyzerJavaCommand:
\* it returns when there is no class analyzer command (no Java command is
\* found), and calls exec otherwise.
ExecClassAnalyzer ==
    /\ command.step = "awaitFields"
    /\ command.fields = "pending"
    /\ command.analysis = "none"
    /\ \E classAnalyzerCommand \in BOOLEAN :
          command' = [command EXCEPT
                        !.analysis = IF classAnalyzerCommand THEN "running" ELSE "missing"]
    /\ UNCHANGED <<code, comments, forest, pc, call, ret, globalLastIndex, scan, processor,
            settings>>

\* The callback of exec in getFields: on an error or on output on stderr it
\* shows the error and returns; otherwise it resolves the promise with the
\* fields of the output.
execCallback(this, className, failure, stdout) ==
    IF failure
    THEN [this EXCEPT !.analysis = "failed", !.message = "error"]
    ELSE [this EXCEPT !.analysis = "succeeded", !.fields = "resolved",
                      !.found = fieldsOf(className, stdout)]

ExecCallback ==
    /\ command.analysis = "running"
    /\ \E failure \in BOOLEAN, count \in 0..MaxFields :
          command' = execCallback(command, forest.nodes[processor.javaClass].name,
                                  failure, analysisOutput(count))
    /\ UNCHANGED <<code, comments, forest, pc, call, ret, globalLastIndex, scan, processor,
            settings>>

\* The command goes on after await getFields once the promise is settled:
\* it returns (or, in generateAccessorMethods, goes to the next type) when
\* there are no fields.
AwaitFields ==
    /\ command.step = "awaitFields"
    /\ command.fields \in {"resolved", "undefined"}
    /\ command' =
          IF command.name = "generateAccessorMethods"
          THEN IF command.fields = "undefined" \/ Len(command.found) <= 0
               THEN [command EXCEPT !.step = "nextType", !.selection = Tail(@),
                                    !.fields = "none", !.analysis = "none",
                                    !.found = <<>>]
               ELSE [command EXCEPT !.step = "selectFields"]
          ELSE IF command.fields = "undefined"
               THEN [command EXCEPT !.step = "returned"]
               ELSE [command EXCEPT !.step = "selectFields"]
    /\ UNCHANGED <<code, comments, forest, pc, call, ret, globalLastIndex, scan, processor,
            settings>>

\* The user picks fields: no answer ends the command; without fields the
\* commands of toString and of equals and hashCode go on with an empty
\* selection and show no menu.  generateAccessorMethods collects the
\* accessors of the picked fields and goes to the next type.
SelectFields ==
    /\ command.step = "selectFields"
    /\ IF command.name = "generateAccessorMethods"
       THEN \/ command' = [command EXCEPT !.step = "returned"]
            \/ \E chosen \in SUBSET (1..Len(command.found)) :
               \E fieldsSelection \in {pickFrom(command.found, chosen, 1)} :
                  command' =
                     [command EXCEPT
                        !.step = "nextType", !.selection = Tail(@),
                        !.accessorMap =
                           pushAccessors(@, Head(command.selection),
                              [n \in 1..Len(fieldsSelection) |->
                                 fieldOfLabel(command.found, labelOf(fieldsSelection[n]))],
                              1),
                        !.fields = "none", !.analysis = "none", !.found = <<>>]
       ELSE IF Len(command.found) > 0
       THEN \/ command' = [command EXCEPT !.step = "returned"]
            \/ \E chosen \in SUBSET (1..Len(command.found)) :
                  command' = [command EXCEPT
                                !.step = IF command.name = "generateToStringMethod"
                                         THEN "selectLayout" ELSE "insert",
                                !.selected = pickFrom(command.found, chosen, 1)]
       ELSE command' = [command EXCEPT
                          !.step = IF command.name = "generateToStringMethod"
                                   THEN "selectLayout" ELSE "insert",
                          !.selected = <<>>]
    /\ UNCHANGED <<code, comments, forest, pc, call, ret, globalLastIndex, scan, processor,
            settings>>

\* generateToStringMethod asks for the layout: no layout ends the command;
\* with fields selected it asks next whether to print their names, and
\* without it takes "No" for the answer.
SelectLayout ==
    /\ command.step = "selectLayout"
    /\ \/ command' = [command EXCEPT !.step = "returned"]
       \/ \E layout \in Layouts :
             command' = [command EXCEPT
                           !.layout = layout,
                           !.printFieldNames = FALSE,
                           !.step = IF Len(command.selected) > 0
                                    THEN "printFieldNames" ELSE "insert"]
    /\ UNCHANGED <<code, comments, forest, pc, call, ret, globalLastIndex, scan, processor,
            settings>>

\* The user answers "Yes" or "No" to 'Print field names', or closes the
\* menu: the names are printed on "Yes" only.
SelectPrintFieldNames ==
    /\ command.step = "printFieldNames"
    /\ \E printFieldNamesAnswer \in {"Yes", "No", Undefined} :
          command' = [command EXCEPT !.step = "insert",
                                     !.printFieldNames = (printFieldNamesAnswer = "Yes")]
    /\ UNCHANGED <<code, comments, forest, pc, call, ret, globalLastIndex, scan, processor,
            settings>>

\* The command calls the generator of the processor, which runs up to its
\* first await: inseertOrReplaceAccessors reads the text and enters its
\* loop; insertOrReplaceToString and insertOrReplaceEquals build their code
\* and run insertOrReplaceMethodInheritedByObjectClass up to the message
\* that the method exists or to the edit that inserts the code.
InsertOrReplace ==
    /\ command.step = "insert"
    /\ pc = "ready"
    /\ IF command.name = "generateAccessorMethods"
       THEN /\ processor' = [processor EXCEPT
                               !.javaFileContent = code,
                               !.accessors = accessorsOf(command.accessorMap, 1),
                               !.code = <<>>]
            /\ pc' = "accessors"
            /\ command' = [command EXCEPT !.step = "awaitInsert"]
            /\ UNCHANGED <<code, call, ret>>
       ELSE \E method \in {IF command.name = "generateToStringMethod"
                           THEN "toString" ELSE "equals"} :
            \E fieldNames \in {fieldNamesOf(command.selected, 1)} :
            \E text \in {IF method = "toString"
                         THEN toStringCode(fieldNames, command.printFieldNames,
                                           command.layout, processor.indentation)
                         ELSE equalsCode(fieldNames, processor.indentation)} :
            \E started \in {insertOrReplaceMethodInheritedByObjectClass(
                               processor, forest.nodes, code, method, text)} :
            \E cursorIndex \in started.cursors :
               /\ processor' = [processor EXCEPT !.method = method, !.code = text,
                                                 !.cursorIndex = cursorIndex]
               /\ pc' = started.pc
               /\ call' = [NoCall EXCEPT !.op = started.op, !.node = processor.javaClass,
                                         !.method = method]
               /\ ret' = started.ret
               /\ code' = started.text
               /\ command' = [command EXCEPT
                                !.step = IF method = "toString"
                                         THEN "awaitInsert" ELSE "awaitEquals",
                                !.edited = started.edited,
                                !.message = IF started.asked THEN "information" ELSE @]
    /\ UNCHANGED <<comments, forest, globalLastIndex, scan, settings>>

\* generateHashCodeAndEqualsMethods goes on after await insertOrReplaceEquals:
\* insertOrReplaceHashCode builds its code and runs up to its first await.
AwaitEquals ==
    /\ command.step = "awaitEquals"
    /\ pc \in {"done", "failed"}
    /\ IF pc = "failed"
       THEN /\ command' = [command EXCEPT !.step = "rejected"]
            /\ UNCHANGED <<code, pc, call, ret, processor>>
       ELSE \E text \in {hashCodeCode(fieldNamesOf(command.selected, 1),
                                      processor.indentation)} :
            \E started \in {insertOrReplaceMethodInheritedByObjectClass(
                               processor, forest.nodes, code, "hashCode", text)} :
            \E cursorIndex \in started.cursors :
               /\ processor' = [processor EXCEPT !.method = "hashCode", !.code = text,
                                                 !.cursorIndex = cursorIndex]
               /\ pc' = started.pc
               /\ call' = [NoCall EXCEPT !.op = started.op, !.node = processor.javaClass,
                                         !.method = "hashCode"]
               /\ ret' = started.ret
               /\ code' = started.text
               /\ command' = [command EXCEPT
                                !.step = "awaitInsert",
                                !.edited = @ \/ started.edited,
                                !.message = IF started.asked THEN "information" ELSE @]
    /\ UNCHANGED <<comments, forest, globalLastIndex, scan, settings>>

\* The command goes on after the await of its last generator, and returns.
AwaitInsert ==
    /\ command.step = "awaitInsert"
    /\ pc \in {"done", "failed"}
    /\ command' = [command EXCEPT !.step = IF pc = "failed" THEN "rejected" ELSE "returned"]
    /\ UNCHANGED <<code, comments, forest, pc, call, ret, globalLastIndex, scan, processor,
            settings>>

\* The documents: a package line and one class, with or without a line
\* comment in its body, and with no method, a toString method or a getter.
GenerateDocuments ==
    { Line_package \o Tok_classA \o comment \o method \o <<"}">> :
         comment \in { <<>>, <<"/", "/", "\n">> },
         method \in { <<>>, Tok_toString \o <<"}">>, Tok_getF \o <<"}">> } }

\* An editor shows a document, with the cursor at its start or in the body
\* of its class.
InitGenerate ==
    /\ code \in GenerateDocuments
    /\ comments = <<>>
    /\ forest = NoForest
    /\ pc = "text"
    /\ call = NoCall
    /\ ret = NoRet
    /\ globalLastIndex = 0
    /\ scan = NoScan
    /\ processor \in {[NoProcessor EXCEPT !.cursorIndex = cursorIndex] :
                        cursorIndex \in {0, Len(Line_package) + Len(Tok_classA)}}
    /\ command = NoCommand
    /\ settings \in ProjectSettings
NextGenerate ==
    \/ StartGenerate
    \/ ParsePom
    \/ BuildProcessor
    \/ AwaitBuild
    \/ SelectAccessorTypes
    \/ NextAccessorType
    \/ GetFields
    \/ ExecClassAnalyzer
    \/ ExecCallback
    \/ AwaitFields
    \/ SelectFields
    \/ SelectLayout
    \/ SelectPrintFieldNames
    \/ InsertOrReplace
    \/ AwaitEquals
    \/ AwaitInsert
    \/ QueryAccessor
    \/ AnswerRegenerate
    \/ UpdateDeleted
    \/ QueryInsert
    \/ ApplyInsert
    \/ UpdateInserted
    \/ AnswerMethod
    \/ UpdateRegenerated
    \/ UpdateMethodInserted
    \/ FixImport
    \/ UpdateImported
SpecGenerate == InitGenerate /\ [][NextGenerate]_vars

\* C26: a generate command never waits for ever on getFields: when the class
\* analysis cannot start (no Java command) or fails (error, output on
\* stderr), the promise of getFields is settled with undefined, so that the
\* command returns without an edit.
C26_GetFieldsSettles ==
    (command.analysis \in {"missing", "failed"}) => (command.fields = "undefined")

(***************************************************************************)
(* commands: initPlainJavaProject and the Nerd4J settings.                 *)
(***************************************************************************)
\* The project type is one of the two or not set.
ProjectTypes == {"", maven, plainJava}
StoredOutFolders == {"", "/old/out"}
StoredLibFolders == {"", "/old/lib"}
PickedOutFolders == {"/new/out", "/build"}
PickedLibFolders == {"/new/lib", "/libs"}
StoredLocalRepos == {"", "/old/m2"}
PickedLocalRepos == {"/new/m2"}
\* The repository getDefaultLocalMavenRepository finds in the home of the
\* user.
DefaultLocalRepo == "/home/.m2/repository"

\* The workspace holds some Nerd4J settings; no command runs.
InitPlainJava ==
    /\ code = <<>>
    /\ comments = <<>>
    /\ forest = NoForest
    /\ pc = "text"
    /\ call = NoCall
    /\ ret = NoRet
    /\ globalLastIndex = 0
    /\ scan = NoScan
    /\ processor = NoProcessor
    /\ command = NoCommand
    /\ settings \in [projectType : ProjectTypes, javaOutFolder : StoredOutFolders,
                     javaLibFolder : StoredLibFolders, mavenLocalRepo : StoredLocalRepos]

\* initPlainJavaProject starts and shows the file picker of the output
\* folder; the settings the workspace holds at that time are noted.
StartInitPlainJava ==
    /\ command.step = "none"
    /\ command' = [NoCommand EXCEPT !.name = "initPlainJavaProject",
                                    !.step = "pickOutFolder",
                                    !.before = settings]
    /\ UNCHANGED <<code, comments, forest, pc, call, ret, globalLastIndex, scan, processor,
            settings>>

\* showFilePicker for the output folder: the dialog gives a folder, gives
\* none, or fails.
PickOutFolder ==
    /\ command.step = "pickOutFolder"
    /\ \/ \E javaOutFolder \in PickedOutFolders :
             command' = [command EXCEPT !.step = "updateOutFolder",
                                        !.selection = <<javaOutFolder>>]
       \/ command' = [command EXCEPT !.step = "warn"]
       \/ command' = [command EXCEPT !.step = "catch"]
    /\ UNCHANGED <<code, comments, forest, pc, call, ret, globalLastIndex, scan, processor,
            settings>>

\* showFilePicker for the folder of the libraries.
PickLibFolder ==
    /\ command.step = "pickLibFolder"
    /\ \/ \E javaLibFolder \in PickedLibFolders :
             command' = [command EXCEPT !.step = "updateLibFolder",
                                        !.selection = <<javaLibFolder>>]
       \/ command' = [command EXCEPT !.step = "warn"]
       \/ command' = [command EXCEPT !.step = "catch"]
    /\ UNCHANGED <<code, comments, forest, pc, call, ret, globalLastIndex, scan, processor,
            settings>>

\* getConfiguration().update( Nerd4JSetting.javaOutFolder, javaOutFolder ),
\* which stores the folder or fails.
UpdateOutFolder ==
    /\ command.step = "updateOutFolder"
    /\ \/ /\ settings' = [settings EXCEPT !.javaOutFolder = command.selection[1]]
          /\ command' = [command EXCEPT !.step = "pickLibFolder", !.selection = <<>>]
       \/ /\ command' = [command EXCEPT !.step = "catch"]
          /\ UNCHANGED settings
    /\ UNCHANGED <<code, comments, forest, pc, call, ret, globalLastIndex, scan, processor>>

\* getConfiguration().update( Nerd4JSetting.javaLibFolder, javaLibFolder )
UpdateLibFolder ==
    /\ command.step = "updateLibFolder"
    /\ \/ /\ settings' = [settings EXCEPT !.javaLibFolder = command.selection[1]]
          /\ command' = [command EXCEPT !.step = "setProjectType", !.selection = <<>>]
       \/ /\ command' = [command EXCEPT !.step = "catch"]
          /\ UNCHANGED settings
    /\ UNCHANGED <<code, comments, forest, pc, call, ret, globalLastIndex, scan, processor>>

\* setProjectType( JavaProjectType.plainJava ), the information message and
\* the return.
SetProjectType ==
    /\ command.step = "setProjectType"
    /\ \/ /\ settings' = [settings EXCEPT !.projectType = plainJava]
          /\ command' = [command EXCEPT !.step = "returned", !.message = "information"]
       \/ /\ command' = [command EXCEPT !.step = "catch"]
          /\ UNCHANGED settings
    /\ UNCHANGED <<code, comments, forest, pc, call, ret, globalLastIndex, scan, processor>>

\* catch( ex ): the error message is shown.
CatchInitError ==
    /\ command.step = "catch"
    /\ command' = [command EXCEPT !.step = "warn", !.message = "error"]
    /\ UNCHANGED <<code, comments, forest, pc, call, ret, globalLastIndex, scan, processor,
            settings>>

\* The end of initPlainJavaProject after a step that gave nothing or failed:
\* the warning message.
WarnInitFailed ==
    /\ command.step = "warn"
    /\ command' = [command EXCEPT !.step = "returned", !.message = "warning"]
    /\ UNCHANGED <<code, comments, forest, pc, call, ret, globalLastIndex, scan, processor,
            settings>>

\* The settings clearNerd4JSettings updates to undefined, in its order:
\* the one after key, "returned" after the last.
nextCleared(key) ==
    IF key = "projectType" THEN "javaOutFolder"
    ELSE IF key = "javaOutFolder" THEN "javaLibFolder"
    ELSE IF key = "javaLibFolder" THEN "mavenLocalRepo"
    ELSE "returned"

\* clearNerd4JSettings() is called while no other call of the settings
\* commands is under way, and runs up to its first await: the update of
\* the project type is asked for.
ClearNerd4JSettings ==
    /\ call.step \in {"none", "returned", "rejected"}
    /\ call' = [NoCall EXCEPT !.op = "clearNerd4JSettings", !.step = "projectType"]
    /\ UNCHANGED <<code, comments, forest, pc, ret, globalLastIndex, scan, processor,
            command, settings>>

\* An update of clearNerd4JSettings is done: the setting is not set any
\* more and the update of the next setting is asked for; a failed update
\* rejects the call.
UpdateCleared ==
    /\ call.op = "clearNerd4JSettings"
    /\ call.step \in {"projectType", "javaOutFolder", "javaLibFolder", "mavenLocalRepo"}
    /\ \/ /\ settings' = [settings EXCEPT ![call.step] = ""]
          /\ call' = [call EXCEPT !.step = nextCleared(call.step)]
       \/ /\ call' = [call EXCEPT !.step = "rejected"]
          /\ UNCHANGED settings
    /\ UNCHANGED <<code, comments, forest, pc, ret, globalLastIndex, scan, processor,
            command>>

\* setProjectType( projectType ) is called by itself and runs up to its
\* await.
CallSetProjectType ==
    /\ call.step \in {"none", "returned", "rejected"}
    /\ \E projectType \in {maven, plainJava} :
          call' = [NoCall EXCEPT !.op = "setProjectType", !.step = "projectType",
                                 !.value = projectType]
    /\ UNCHANGED <<code, comments, forest, pc, ret, globalLastIndex, scan, processor,
            command, settings>>

\* initMavenProject() up to its first await: with the default local
\* repository the update of the setting is asked for, without it the file
\* picker is shown.
InitMavenProject ==
    /\ call.step \in {"none", "returned", "rejected"}
    /\ \E defaultLocalRepo \in BOOLEAN :
          call' = IF defaultLocalRepo
                  THEN [NoCall EXCEPT !.op = "initMavenProject",
                                      !.step = "mavenLocalRepo",
                                      !.value = DefaultLocalRepo]
                  ELSE [NoCall EXCEPT !.op = "initMavenProject",
                                      !.step = "pickLocalRepo"]
    /\ UNCHANGED <<code, comments, forest, pc, ret, globalLastIndex, scan, processor,
            command, settings>>

\* showFilePicker for the local Maven repository: with a folder the update
\* of the setting is asked for; without one initMavenProject returns; a
\* dialog that fails rejects the call.
PickLocalRepo ==
    /\ call.step = "pickLocalRepo"
    /\ \/ \E mavenLocalRepoPath \in PickedLocalRepos :
             call' = [call EXCEPT !.step = "mavenLocalRepo", !.value = mavenLocalRepoPath]
       \/ call' = [call EXCEPT !.step = "returned"]
       \/ call' = [call EXCEPT !.step = "rejected"]
    /\ UNCHANGED <<code, comments, forest, pc, ret, globalLastIndex, scan, processor,
            command, settings>>

\* getConfiguration().update( Nerd4JSetting.mavenLocalRepo, mavenLocalRepoPath )
\* is done, and setProjectType( JavaProjectType.maven ) runs up to its
\* await.
UpdateLocalRepo ==
    /\ call.op = "initMavenProject"
    /\ call.step = "mavenLocalRepo"
    /\ \/ /\ settings' = [settings EXCEPT !.mavenLocalRepo = call.value]
          /\ call' = [call EXCEPT !.step = "projectType", !.value = maven]
       \/ /\ call' = [call EXCEPT !.step = "rejected", !.value = ""]
          /\ UNCHANGED settings
    /\ UNCHANGED <<code, comments, forest, pc, ret, globalLastIndex, scan, processor,
            command>>

\* The update of setProjectType is done: the project type is stored and
\* the call returns, in initMavenProject with the information message.
UpdateProjectType ==
    /\ call.op \in {"setProjectType", "initMavenProject"}
    /\ call.step = "projectType"
    /\ \/ /\ settings' = [settings EXCEPT !.projectType = call.value]
          /\ call' = [call EXCEPT
                        !.step = "returned", !.value = "",
                        !.message = IF call.op = "initMavenProject" THEN "information"
                                    ELSE "none"]
       \/ /\ call' = [call EXCEPT !.step = "rejected", !.value = ""]
          /\ UNCHANGED settings
    /\ UNCHANGED <<code, comments, forest, pc, ret, globalLastIndex, scan, processor,
            command>>

NextPlainJava ==
    \/ StartInitPlainJava
    \/ PickOutFolder
    \/ UpdateOutFolder
    \/ PickLibFolder
    \/ UpdateLibFolder
    \/ SetProjectType
    \/ CatchInitError
    \/ WarnInitFailed
    \/ ClearNerd4JSettings
    \/ UpdateCleared
    \/ CallSetProjectType
    \/ InitMavenProject
    \/ PickLocalRepo
    \/ UpdateLocalRepo
    \/ UpdateProjectType
SpecPlainJava == InitPlainJava /\ [][NextPlainJava]_vars

\* C27: when a step of initPlainJavaProject fails or is cancelled, the
\* attempt ends with the warning and with every Nerd4J setting as it was
\* before the attempt (the project type included); the project type is set
\* to plain Java only with both folders chosen and stored.  This is said of
\* the attempts no other settings command was called beside.
C27_FailedInitRolledBack ==
    /\ (command.name = "initPlainJavaProject" /\ command.step = "returned"
        /\ command.message = "warning" /\ call = NoCall)
       => settings = command.before
    /\ (command.name = "initPlainJavaProject" /\ command.step = "returned"
        /\ command.message # "warning" /\ call = NoCall)
       => /\ settings.projectType = plainJava
          /\ settings.javaOutFolder \in PickedOutFolders
          /\ settings.javaLibFolder \in PickedLibFolders

\* ---------------------------------------------------------------------
\* Termination of moveToClosingBracket
\* ---------------------------------------------------------------------

\* What is left to a run of moveToClosingBracket at the loop state st: the
\* comments after the cursor, each worth a whole pass over the text, and
\* the characters after the scan position.
ScanRank(st) ==
    (Len(call.cs) - st.k) * (Len(code) + 1)
    + (IF st.i >= Len(code) THEN 0 ELSE Len(code) - st.i)

\* C28: moveToClosingBracket terminates on every text, start index and
\* comment list of the text, nested spans included: the cursor stays within
\* the comment list and each iteration of the loop consumes a comment or a
\* character, so that a run takes no more than (comments + 1) * (length + 1)
\* iterations.
C28_ScanTerminates ==
    pc = "scanning"
    => /\ scan.k <= Len(call.cs)
       /\ ScanRank(scan) >= 0
       /\ (~scan.found /\ scan.i < Len(code))
          => ScanRank(closingBracketStep(code, call.cs, scan)) < ScanRank(scan)

\* A run that jumped back: the comment it has just skipped ends before the
\* one skipped before it.
C28_Witness ==
    /\ pc = "scanning"
    /\ scan.k >= 2
    /\ scan.at = call.cs[scan.k].interval.endIndex
    /\ call.cs[scan.k].interval.endIndex < call.cs[scan.k - 1].interval.endIndex

\* ---------------------------------------------------------------------
\* The insert index and the body of the class
\* ---------------------------------------------------------------------

\* C29: whatever the class node and the index probed, in the text or out of
\* it, the index getInsertIndex returns lies in the bodyInterval of the
\* class, and when it is not the end of the body the text holds a white
\* space character there.
C29_InsertIndexInBody ==
    (pc = "returned" /\ call.op = "getInsertIndex")
    => LET node == Node(call.node)
       IN  /\ ret.status = "ok"
           /\ node.bodyInterval.startIndex <= ret.value
           /\ ret.value <= node.bodyInterval.endIndex
           /\ (ret.value # node.bodyInterval.endIndex)
              => At(code, ret.value) \in WhiteSpaceChars

\* The probed index is returned, and it is not the end of the body.
C29_Witness ==
    /\ pc = "returned"
    /\ call.op = "getInsertIndex"
    /\ ret.value = call.index
    /\ ret.value # Node(call.node).bodyInterval.endIndex

\* ---------------------------------------------------------------------
\* Disjoint comment spans
\* ---------------------------------------------------------------------

\* C30: the spans of the comments findComments returns are pairwise
\* disjoint: each comment of the list starts after the end of the one
\* before it.
C30_CommentsDisjoint ==
    (pc = "idle")
    => \A n \in 1..(Len(comments) - 1) :
          comments[n].interval.endIndex < comments[n + 1].interval.startIndex

====
